---- MODULE Spec2Model ----
(***************************************************************************)
(* A model of the videomixer element (gst/videomixer/videomixer.c): the    *)
(* pad registry, the geometry / frame-rate negotiation, the aggregation    *)
(* cycle (fill_queues, QoS, blend order, update_queues) and the event      *)
(* handlers.                                                                *)
(*                                                                          *)
(* Time is counted in milliseconds (GST_SECOND == 1000) and GstClockTime   *)
(* is an unsigned integer of reduced width: values live in 0 .. ClockMod-1 *)
(* and GST_CLOCK_TIME_NONE is the all-ones value, as in the C code.  The   *)
(* signed 64-bit fields (queued, interval) are plain integers in which     *)
(* (gint64) GST_CLOCK_TIME_NONE is -1.                                     *)
(***************************************************************************)
EXTENDS Integers, Sequences, FiniteSets, TLC

\* ------------------------------------------------------------------ bounds
MaxPads == 2          \* pads registered at the same time while streaming
GeomMaxPads == 2      \* pads registered at the same time in the registry runs
MaxZorder == 1        \* z-orders a property set may give
MaxFrames == 2        \* frames one upstream delivers on one pad
MaxRetries == 2       \* calls made again after a failed allocation
QosMaxPads == 1       \* pads in the QoS runs
QosMaxFrames == 3     \* frames one upstream delivers in the QoS runs
PaceTicks == 1000     \* frames one upstream delivers in the pacing runs
OrderMaxPads == 3     \* pads registered at the same time in the z-order runs

\* --------------------------------------------------------- program values
GST_SECOND == 1000
GST_CLOCK_TIME_NONE == 1048575
ClockMod == GST_CLOCK_TIME_NONE + 1
NONE64 == -1          \* (gint64) GST_CLOCK_TIME_NONE
G_MAXINT64 == 524287

DEFAULT_PAD_XPOS == 0
DEFAULT_PAD_YPOS == 0
DEFAULT_PAD_WIDTH == 0
DEFAULT_PAD_HEIGHT == 0
DEFAULT_PAD_ALPHA == 100   \* alpha is kept in percent: 1.0 is 100

NoPad == -1           \* the NULL GstVideoMixerPad pointer

GST_CLOCK_TIME_IS_VALID(t) == (t % ClockMod) # GST_CLOCK_TIME_NONE

\* (guint64) of a signed value and (gint64) of an unsigned one
ToUnsigned(s) == s % ClockMod
ToSigned(u) == IF u >= ClockMod \div 2 THEN u - ClockMod ELSE u

\* gst_util_uint64_scale_int (val, num, denom): val * num / denom, truncated
gst_util_uint64_scale_int(val, num, denom) == (val * num) \div denom

Min(a, b) == IF a < b THEN a ELSE b
Max(a, b) == IF a > b THEN a ELSE b

\* the NULL GstBuffer pointer, and a buffer: n is the frame's number in its
\* stream (1, 2, ...), ts its timestamp, dur its duration
NoBuffer == [n |-> 0, ts |-> 0, dur |-> 0]
Buffer(n, ts, dur) == [n |-> n, ts |-> ts, dur |-> dur]

\* a GstSegment (TIME format, rate 1.0, stop unknown)
Segment(start, accum) == [start |-> start, accum |-> accum]

\* gst_segment_to_running_time: NONE before the segment start or for NONE
gst_segment_to_running_time(seg, ts) ==
    IF ts = GST_CLOCK_TIME_NONE \/ ts < seg.start
    THEN GST_CLOCK_TIME_NONE
    ELSE (ts - seg.start + seg.accum) % ClockMod

VARIABLES
    sinkpads,     \* mix->sinkpads: the pad serials, in list order
    pad,          \* the GstVideoMixerPad (and its mixcol) of every listed pad
    mix,          \* the GstVideoMixer fields
    collect,      \* GstCollectPads: the queued buffer and EOS flag per pad
    pending,      \* GstCollectPads is about to call the collected function
    seekpc,       \* where the thread handling a seek event stands
    aggpc,        \* where the aggregation thread stands inside a cycle
    qospc,        \* where the thread handling a QoS event stands
    down,         \* what the last handler pushed downstream / returned
    hist          \* history: whether EOS / a frame was pushed since the
                  \* last flush, seek or stop

vars == <<sinkpads, pad, mix, collect, pending, seekpc, aggpc, qospc, down, hist>>

\* pad serial numbers: one more than the pads that can be registered at the
\* same time in the largest runs
PadIds == 0 .. OrderMaxPads

\* ------------------------------------------------------------ pad records
\* gst_videomixer_pad_init / g_object_new: zero-filled instance + defaults
NewPad(zorder) ==
    [ zorder |-> zorder,
      xpos |-> DEFAULT_PAD_XPOS, ypos |-> DEFAULT_PAD_YPOS,
      width |-> DEFAULT_PAD_WIDTH, height |-> DEFAULT_PAD_HEIGHT,
      alpha |-> DEFAULT_PAD_ALPHA,
      in_width |-> 0, in_height |-> 0,
      fps_n |-> 0, fps_d |-> 0, par_n |-> 0, par_d |-> 0,
      queued |-> 0,
      buffer |-> NoBuffer,
      segment |-> Segment(0, 0) ]

\* the GstCollectData of a new pad, and what its upstream has sent so far
\* (with_duration: whether that upstream stamps durations on its buffers)
NewCollectData(with_duration) ==
    [buffer |-> NoBuffer, eos |-> FALSE, flushing |-> FALSE,
     sent |-> 0, next_ts |-> 0, with_duration |-> with_duration]

Index(seq, x) == CHOOSE i \in 1 .. Len(seq) : seq[i] = x
InList(seq, x) == \E i \in 1 .. Len(seq) : seq[i] = x
Registered == {sinkpads[i] : i \in 1 .. Len(sinkpads)}

\* g_slist_remove
Remove(seq, x) == SelectSeq(seq, LAMBDA y : y # x)

\* -------------------------------------------------------------- QoS state
\* gst_videomixer_update_qos: the (proportion, earliest_time) pair after a
\* report.  proportion is kept in percent.
QosLateSingleDiff(m, proportion, diff, timestamp) ==
    [m EXCEPT !.proportion = proportion,
              !.earliest_time =
                  IF timestamp # GST_CLOCK_TIME_NONE
                  THEN IF diff > 0
                       THEN (timestamp + diff
                             + gst_util_uint64_scale_int(GST_SECOND, m.fps_d, m.fps_n))
                            % ClockMod
                       ELSE (timestamp + diff) % ClockMod
                  ELSE GST_CLOCK_TIME_NONE]

gst_videomixer_update_qos(m, proportion, diff, timestamp) ==
    [m EXCEPT !.proportion = proportion,
              !.earliest_time =
                  IF timestamp # GST_CLOCK_TIME_NONE
                  THEN IF diff > 0
                       THEN (timestamp + 2 * diff
                             + gst_util_uint64_scale_int(GST_SECOND, m.fps_d, m.fps_n))
                            % ClockMod
                       ELSE (timestamp + diff) % ClockMod
                  ELSE GST_CLOCK_TIME_NONE]

\* a reset that leaves the observation as it is
ResetQosSkipped(m) == m

gst_videomixer_reset_qos(m) ==
    gst_videomixer_update_qos(m, 50, 0, GST_CLOCK_TIME_NONE)

\* --------------------------------------------------- geometry negotiation
\* the frame-rate test of set_master_geometry: the running rate cn/cd is
\* replaced by the pad's rate pn/pd when this holds
FpsTakesOverSlower(cn, cd, pn, pd) ==
    (cn = 0 /\ cd = 0) \/ (pn * cd < cn * pd)

FpsTakesOverOnTie(cn, cd, pn, pd) ==
    (cn = 0 /\ cd = 0) \/ (cn * pd <= pn * cd)

FpsTakesOver(cn, cd, pn, pd) ==
    (cn = 0 /\ cd = 0) \/ (cn * pd < pn * cd)

\* the locals of set_master_geometry before the walk
GeomStart ==
    [width |-> 0, height |-> 0, fps_n |-> 0, fps_d |-> 0,
     par_n |-> 0, par_d |-> 0, master |-> NoPad]

\* one iteration of the while loop, for the pad with serial id
GeomStepNoHeight(acc, pads, id) ==
    LET p == pads[id]
        take == FpsTakesOver(acc.fps_n, acc.fps_d, p.fps_n, p.fps_d)
    IN  [width |-> Max(acc.width, p.in_width),
         height |-> IF take THEN p.in_height ELSE acc.height,
         fps_n |-> IF take THEN p.fps_n ELSE acc.fps_n,
         fps_d |-> IF take THEN p.fps_d ELSE acc.fps_d,
         par_n |-> IF take THEN p.par_n ELSE acc.par_n,
         par_d |-> IF take THEN p.par_d ELSE acc.par_d,
         master |-> IF take THEN id ELSE acc.master]

GeomStep(acc, pads, id) ==
    LET p == pads[id]
        take == FpsTakesOver(acc.fps_n, acc.fps_d, p.fps_n, p.fps_d)
    IN  [width |-> Max(acc.width, p.in_width),
         height |-> Max(acc.height, p.in_height),
         fps_n |-> IF take THEN p.fps_n ELSE acc.fps_n,
         fps_d |-> IF take THEN p.fps_d ELSE acc.fps_d,
         par_n |-> IF take THEN p.par_n ELSE acc.par_n,
         par_d |-> IF take THEN p.par_d ELSE acc.par_d,
         master |-> IF take THEN id ELSE acc.master]

RECURSIVE GeomWalk(_, _, _, _)
GeomWalk(acc, list, pads, i) ==
    IF i > Len(list) THEN acc
    ELSE GeomWalk(GeomStep(acc, pads, list[i]), list, pads, i + 1)

\* the part of the mixer state that set_master_geometry compares and stores
GeomOf(m) ==
    [width |-> m.in_width, height |-> m.in_height, fps_n |-> m.fps_n,
     fps_d |-> m.fps_d, par_n |-> m.par_n, par_d |-> m.par_d,
     master |-> m.master]

\* gst_videomixer_set_master_geometry over the list and pads given
SetMasterGeometryKeepsQos(m, list, pads) ==
    LET g == GeomWalk(GeomStart, list, pads, 1)
    IN  IF GeomOf(m) # g
        THEN [m EXCEPT !.setcaps = TRUE, !.sendseg = TRUE,
                       !.master = g.master,
                       !.in_width = g.width, !.in_height = g.height,
                       !.fps_n = g.fps_n, !.fps_d = g.fps_d,
                       !.par_n = g.par_n, !.par_d = g.par_d]
        ELSE m

\* set_master_geometry that leaves the master alone when the size, the rate
\* and the pixel aspect ratio stay
SetMasterGeometryKeepsMaster(m, list, pads) ==
    LET g == GeomWalk(GeomStart, list, pads, 1)
    IN  IF [GeomOf(m) EXCEPT !.master = g.master] # g
        THEN [gst_videomixer_reset_qos([m EXCEPT !.setcaps = TRUE, !.sendseg = TRUE])
                EXCEPT !.master = g.master,
                       !.in_width = g.width, !.in_height = g.height,
                       !.fps_n = g.fps_n, !.fps_d = g.fps_d,
                       !.par_n = g.par_n, !.par_d = g.par_d]
        ELSE m

gst_videomixer_set_master_geometry(m, list, pads) ==
    LET g == GeomWalk(GeomStart, list, pads, 1)
    IN  IF GeomOf(m) # g
        THEN [gst_videomixer_reset_qos([m EXCEPT !.setcaps = TRUE, !.sendseg = TRUE])
                EXCEPT !.master = g.master,
                       !.in_width = g.width, !.in_height = g.height,
                       !.fps_n = g.fps_n, !.fps_d = g.fps_d,
                       !.par_n = g.par_n, !.par_d = g.par_d]
        ELSE m

\* the flags and the QoS observation a recomputation may touch
GeomFlags(m) == <<m.setcaps, m.sendseg, m.proportion, m.earliest_time>>

\* what a negotiation did to the stored geometry m, giving n: whether the
\* stored tuple changed, and whether the width or the height went down
GeomChanged(m, n) == GeomOf(m) # GeomOf(n)
GeomShrunk(m, n) == n.in_width < m.in_width \/ n.in_height < m.in_height

\* ------------------------------------------------------------ mixer state
\* the values of the method property
GST_VIDEO_SCALE_NEAREST == "nearest-neighbour"
GST_VIDEO_SCALE_BILINEAR == "bilinear"
GST_VIDEO_SCALE_4TAP == "4-tap"
ScaleMethods == {GST_VIDEO_SCALE_NEAREST, GST_VIDEO_SCALE_BILINEAR, GST_VIDEO_SCALE_4TAP}
DEFAULT_PROP_METHOD == GST_VIDEO_SCALE_BILINEAR

\* gst_videomixer_reset on a fresh instance (gst_videomixer_init)
InitMix ==
    [ master |-> NoPad,
      in_width |-> 0, in_height |-> 0, out_width |-> 0, out_height |-> 0,
      fps_n |-> 0, fps_d |-> 0, par_n |-> 1, par_d |-> 1,
      setcaps |-> FALSE, sendseg |-> FALSE,
      segment_position |-> 0, segment |-> Segment(0, 0),
      proportion |-> 50, earliest_time |-> GST_CLOCK_TIME_NONE,
      last_ts |-> 0, last_duration |-> GST_CLOCK_TIME_NONE,
      numpads |-> 0, next_sinkpad |-> 0,
      flush_stop_pending |-> FALSE, state_lock |-> FALSE,
      object_lock |-> "free", method |-> DEFAULT_PROP_METHOD ]

\* what a handler reports: its name, its return value and what it pushed
Quiet(op) ==
    [ op |-> op, ret |-> "OK", eos |-> FALSE, frame |-> FALSE,
      alloc |-> FALSE, dropped |-> FALSE, caps |-> FALSE, newseg |-> FALSE,
      flush_stop |-> FALSE, flush_start |-> FALSE,
      ts |-> GST_CLOCK_TIME_NONE, dur |-> GST_CLOCK_TIME_NONE,
      qostime |-> GST_CLOCK_TIME_NONE,
      bg |-> FALSE, blended |-> <<>>,
      held |-> {}, valid |-> {}, popped |-> {},
      queued |-> <<>>,
      mbuf |-> NoBuffer, prev |-> <<>>, changes |-> 0, was |-> <<>>,
      failed |-> <<>>, tbufs |-> <<>>, qos_read |-> <<>>,
      segment |-> <<>>, seek |-> <<>>, scale |-> <<>>, rate |-> <<>>,
      changed |-> FALSE, shrunk |-> FALSE ]

\* eos: EOS events pushed since the last flush or seek (counted to 2);
\* late: a frame was pushed after one of them; clean: the pads that handled
\* FLUSH_STOP since the last aggregation cycle; report: the QoS report in
\* force, <<diff, timestamp, output interval when it came>>, <<>> if none;
\* zorder_set: the z-order property of some pad was set; prev: <<timestamp,
\* duration>> of the last cycle that derived them, <<>> if none; changes: how
\* often the stored geometry changed since the output caps were last set
\* (counted to 2); failed: <<the pads that held a buffer>> when the last
\* cycle failed to allocate, <<>> otherwise; retries: the calls made again
\* after such a failure; written: the <<proportion, earliest_time>> pairs
\* that gst_videomixer_update_qos wrote step by step, and the reset pair;
\* fstart: a flushing seek pushed FLUSH_START; fclears, fstops: how often
\* since then flush_stop_pending went from TRUE to FALSE and the mixer
\* pushed FLUSH_STOP (counted to 2)
InitHist ==
    [eos |-> 0, late |-> FALSE, clean |-> {}, report |-> <<>>,
     zorder_set |-> FALSE, prev |-> <<>>, changes |-> 0,
     failed |-> <<>>, retries |-> 0,
     written |-> { <<50, GST_CLOCK_TIME_NONE>> },
     fstart |-> FALSE, fclears |-> 0, fstops |-> 0,
     refs |-> {}, twice |-> FALSE, seek |-> <<>>]

\* the thread is not inside its handler
Outside == [step |-> "outside"]

Init ==
    /\ sinkpads = <<>>
    /\ pad = <<>>
    /\ mix = InitMix
    /\ collect = <<>>
    /\ pending = FALSE
    /\ seekpc = "idle"
    /\ aggpc = Outside
    /\ qospc = Outside
    /\ down = Quiet("init")
    /\ hist = InitHist

\* ------------------------------------------------------------ the registry
\* gst_videomixer_request_new_pad: req is NoPad when no usable name is given
\* and the serial parsed from "sink_<serial>" otherwise; limit bounds the
\* pads, with_duration describes the upstream the pad is linked to
gst_videomixer_request_new_pad(req, limit, with_duration) ==
    LET serial == IF req = NoPad THEN mix.next_sinkpad ELSE req
        next == IF req = NoPad THEN mix.next_sinkpad + 1
                ELSE IF serial >= mix.next_sinkpad THEN serial + 1
                     ELSE mix.next_sinkpad
    IN  /\ Len(sinkpads) < limit
        /\ serial \in 0 .. limit
        /\ serial \notin Registered
        /\ pad' = [id \in Registered \cup {serial} |->
                      IF id = serial THEN NewPad(mix.numpads) ELSE pad[id]]
        /\ collect' = [id \in Registered \cup {serial} |->
                      IF id = serial THEN NewCollectData(with_duration)
                      ELSE collect[id]]
        /\ sinkpads' = Append(sinkpads, serial)
        /\ mix' = [mix EXCEPT !.next_sinkpad = next, !.numpads = @ + 1]
        /\ down' = Quiet("request_new_pad")
        /\ UNCHANGED <<pending, seekpc, aggpc, qospc, hist>>

\* gst_videomixer_collect_free: the pad's held buffer is unreferenced
CollectFreeSkipped(p) == p

gst_videomixer_collect_free(p) == [p EXCEPT !.buffer = NoBuffer]

\* the pads whose held buffer a call of gst_videomixer_collect_free on the
\* pads in ids released
Freed(pads, ids) ==
    {x \in ids : pads[x].buffer # NoBuffer
                    /\ gst_videomixer_collect_free(pads[x]).buffer = NoBuffer}

\* the references on buffers the element owns, as <<pad, buffer number>>:
\* gst_buffer_unref of the buffers the pads in ids hold; twice records an
\* unref of a buffer the element owns no reference on
FramesReleased(h, pads, ids) ==
    LET gone == {<<x, pads[x].buffer.n>> : x \in {y \in ids : pads[y].buffer # NoBuffer}}
    IN  [h EXCEPT !.refs = @ \ gone, !.twice = @ \/ ~(gone \subseteq h.refs)]

\* gst_videomixer_release_pad of a pad in the list
gst_videomixer_release_pad(id) ==
    /\ InList(sinkpads, id)
    /\ LET list == Remove(sinkpads, id)
           pads == [x \in Registered \ {id} |-> pad[x]]
       IN  /\ sinkpads' = list
           /\ pad' = pads
           /\ collect' = [x \in Registered \ {id} |-> collect[x]]
           /\ mix' = [gst_videomixer_set_master_geometry(mix, list, pads)
                         EXCEPT !.numpads = @ - 1]
    /\ down' = [Quiet("release_pad") EXCEPT !.changed = GeomChanged(mix, mix'),
                                            !.held = Freed(pad, {id}),
                                            !.was = GeomFlags(mix),
                                            !.shrunk = GeomShrunk(mix, mix')]
    /\ hist' = [FramesReleased(hist, pad, Freed(pad, {id}))
                  EXCEPT !.clean = @ \ {id},
                            !.report = IF GeomChanged(mix, mix') THEN <<>> ELSE @,
                            !.changes = IF GeomChanged(mix, mix')
                                        THEN Min(@ + 1, 2) ELSE @]
    /\ UNCHANGED <<pending, seekpc, aggpc, qospc>>

\* gst_videomixer_release_pad of a pad that is not in the list
gst_videomixer_release_unknown_pad(id) ==
    /\ ~InList(sinkpads, id)
    /\ down' = Quiet("release_unknown_pad")
    /\ UNCHANGED <<sinkpads, pad, mix, collect, pending, seekpc, aggpc, qospc, hist>>

\* gst_videomixer_pad_sink_setcaps with complete caps; par_n = 0 stands for
\* caps without a pixel-aspect-ratio field
gst_videomixer_pad_sink_setcaps(id, in_width, in_height, fps_n, fps_d, par_n, par_d) ==
    /\ InList(sinkpads, id)
    /\ LET pads == [pad EXCEPT ![id] =
                       [@ EXCEPT !.fps_n = fps_n, !.fps_d = fps_d,
                                 !.par_n = IF par_n # 0 THEN par_n ELSE 1,
                                 !.par_d = IF par_n # 0 THEN par_d ELSE 1,
                                 !.in_width = in_width, !.in_height = in_height]]
       IN  /\ pad' = pads
           /\ mix' = gst_videomixer_set_master_geometry(mix, sinkpads, pads)
    /\ down' = [Quiet("setcaps") EXCEPT !.changed = GeomChanged(mix, mix'),
                                        !.was = GeomFlags(mix),
                                        !.shrunk = GeomShrunk(mix, mix')]
    /\ hist' = [hist EXCEPT !.report = IF GeomChanged(mix, mix') THEN <<>> ELSE @,
                            !.changes = IF GeomChanged(mix, mix')
                                        THEN Min(@ + 1, 2) ELSE @]
    /\ UNCHANGED <<sinkpads, collect, pending, seekpc, aggpc, qospc>>

\* pad_zorder_compare
pad_zorder_compare(pad1, pad2) == pad1.zorder - pad2.zorder

\* an insertion that puts x in front of the elements that compare equal
RECURSIVE SortedInsertBeforeTies(_, _, _)
SortedInsertBeforeTies(list, pads, x) ==
    IF list = <<>> THEN <<x>>
    ELSE IF pad_zorder_compare(pads[Head(list)], pads[x]) < 0
         THEN <<Head(list)>> \o SortedInsertBeforeTies(Tail(list), pads, x)
         ELSE <<x>> \o list

\* g_slist_sort: a stable merge sort; Insert puts x behind every element
\* that does not compare greater
RECURSIVE SortedInsert(_, _, _)
SortedInsert(list, pads, x) ==
    IF list = <<>> THEN <<x>>
    ELSE IF pad_zorder_compare(pads[Head(list)], pads[x]) <= 0
         THEN <<Head(list)>> \o SortedInsert(Tail(list), pads, x)
         ELSE <<x>> \o list

RECURSIVE g_slist_sort(_, _)
g_slist_sort(list, pads) ==
    IF list = <<>> THEN <<>>
    ELSE SortedInsert(g_slist_sort(SubSeq(list, 1, Len(list) - 1), pads),
                      pads, list[Len(list)])

\* gst_videomixer_sort_pads
gst_videomixer_sort_pads(list, pads) == g_slist_sort(list, pads)

\* gst_videomixer_pad_set_property, PROP_PAD_ZORDER
SetZorder(id, zorder) ==
    /\ InList(sinkpads, id)
    /\ LET pads == [pad EXCEPT ![id].zorder = zorder]
       IN  /\ pad' = pads
           /\ sinkpads' = gst_videomixer_sort_pads(sinkpads, pads)
    /\ down' = Quiet("set_zorder")
    /\ hist' = [hist EXCEPT !.zorder_set = TRUE]
    /\ UNCHANGED <<mix, collect, pending, seekpc, aggpc, qospc>>

\* gst_videomixer_pad_set_property, the properties other than the z-order:
\* "xpos", "ypos", "width", "height", "alpha"
SetPadProperty(id, prop, value) ==
    /\ InList(sinkpads, id)
    /\ pad' = [pad EXCEPT ![id][prop] = value]
    /\ down' = Quiet("set_property")
    /\ UNCHANGED <<sinkpads, mix, collect, pending, seekpc, aggpc, qospc, hist>>

\* ------------------------------------------------------ the transport side
\* GstCollectPads calls the collected function when every pad has a queued
\* buffer or is at EOS
Ready(cd) == DOMAIN cd # {} /\ \A id \in DOMAIN cd : cd[id].buffer # NoBuffer \/ cd[id].eos
Queued(cd) == \E id \in DOMAIN cd : cd[id].buffer # NoBuffer

\* the interval between the frames of a stream with the pad's caps; a stream
\* of rate 0 steps by one second
StreamStep(p) ==
    IF p.fps_n = 0 THEN GST_SECOND
    ELSE gst_util_uint64_scale_int(GST_SECOND, p.fps_d, p.fps_n)

\* upstream pushes its next buffer on the pad
Chain(id, maxframes) ==
    /\ InList(sinkpads, id)
    /\ pad[id].in_width # 0
    /\ collect[id].buffer = NoBuffer
    /\ ~collect[id].eos /\ ~collect[id].flushing
    /\ collect[id].sent < maxframes
    /\ LET step == StreamStep(pad[id])
           buf == Buffer(collect[id].sent + 1, collect[id].next_ts,
                         IF collect[id].with_duration THEN step
                         ELSE GST_CLOCK_TIME_NONE)
       IN  collect' = [collect EXCEPT ![id] =
                          [@ EXCEPT !.buffer = buf, !.sent = @ + 1,
                                    !.next_ts = @ + step]]
    /\ pending' = Ready(collect')
    /\ down' = Quiet("chain")
    /\ UNCHANGED <<sinkpads, pad, mix, seekpc, aggpc, qospc, hist>>

\* gst_videomixer_sink_event, EOS: left to GstCollectPads
SinkEventEos(id) ==
    /\ InList(sinkpads, id)
    /\ collect[id].buffer = NoBuffer
    /\ ~collect[id].eos /\ ~collect[id].flushing
    /\ collect' = [collect EXCEPT ![id].eos = TRUE]
    /\ pending' = Ready(collect')
    /\ down' = Quiet("sink_eos")
    /\ UNCHANGED <<sinkpads, pad, mix, seekpc, aggpc, qospc, hist>>

\* ------------------------------------------------------------ fill_queues
\* the duration fill_queues accounts for a fetched buffer
FetchDuration(p, buf) ==
    IF GST_CLOCK_TIME_IS_VALID(buf.dur) THEN buf.dur
    ELSE IF p.fps_n = 0 THEN GST_CLOCK_TIME_NONE
         ELSE gst_util_uint64_scale_int(GST_SECOND, p.fps_d, p.fps_n)

\* the pad after the fetch step; cbuf is what gst_collect_pads_peek returns
FetchPad(p, cbuf) ==
    IF p.buffer = NoBuffer /\ cbuf # NoBuffer
    THEN LET duration == FetchDuration(p, cbuf)
         IN  [p EXCEPT !.buffer = cbuf,
                       !.queued =
                           IF GST_CLOCK_TIME_IS_VALID(duration)
                           THEN ToSigned(ToUnsigned(@ + duration))
                           ELSE IF @ = 0 THEN NONE64 ELSE @]
    ELSE p

\* the pad keeps the stream alive: it holds a buffer and its queued value is
\* a valid clock time
PadAliveHeldOnly(p) == p.buffer # NoBuffer

PadAlive(p) == p.buffer # NoBuffer /\ GST_CLOCK_TIME_IS_VALID(p.queued)

\* the new segment fill_queues sends for the master pad
SendsSegment(m, pads) == m.sendseg /\ m.master \in DOMAIN pads

\* the new segment with the master's accumulated time as position, whatever
\* segment_position is
SegmentPushedAtStart(m, pads) ==
    IF SendsSegment(m, pads)
    THEN <<pads[m.master].segment.accum, pads[m.master].segment.accum>>
    ELSE <<>>

\* <<start, position>> of the new segment event pushed, <<>> if none is
SegmentPushed(m, pads) ==
    IF SendsSegment(m, pads)
    THEN <<pads[m.master].segment.accum,
           pads[m.master].segment.accum + m.segment_position>>
    ELSE <<>>

\* fill_queues that pushes the segment and leaves sendseg set
SegmentSentKeepsFlag(m, pads) ==
    IF SendsSegment(m, pads)
    THEN [m EXCEPT !.segment = Segment(pads[m.master].segment.accum, @.accum)]
    ELSE m

SegmentSent(m, pads) ==
    IF SendsSegment(m, pads)
    THEN [m EXCEPT !.segment = Segment(pads[m.master].segment.accum, @.accum),
                   !.sendseg = FALSE]
    ELSE m

\* the seek whose segment is still to be sent, <<segment_position>>: it is
\* served by the segment fill_queues pushes with that offset
SeekServed(h, m, pads) ==
    IF h.seek # <<>> /\ SegmentPushed(m, pads) # <<>>
       /\ SegmentPushed(m, pads)[2] = SegmentPushed(m, pads)[1] + h.seek[1]
    THEN [h EXCEPT !.seek = <<>>]
    ELSE h

\* gst_videomixer_fill_queues: the pads and the mixer after it, and its result
FilledPads(pads, cd) == [id \in DOMAIN pads |-> FetchPad(pads[id], cd[id].buffer)]

\* the references gst_collect_pads_peek returned to fill_queues
FramesFetched(h, pads, cd) ==
    LET got == {id \in DOMAIN pads :
                   FetchPad(pads[id], cd[id].buffer).buffer # pads[id].buffer}
    IN  [h EXCEPT !.refs = @ \cup {<<id, cd[id].buffer.n>> : id \in got}]

FillEos(pads) == \A id \in DOMAIN pads : ~PadAlive(pads[id])

\* ---------------------------------------------------------------- do_qos
\* the running time do_qos compares, and its verdict (TRUE: process)
QosTime(m, timestamp) == gst_segment_to_running_time(m.segment, timestamp)

DoQosStrict(m, timestamp) ==
    \/ ~GST_CLOCK_TIME_IS_VALID(timestamp)
    \/ ~GST_CLOCK_TIME_IS_VALID(m.earliest_time)
    \/ ~(QosTime(m, timestamp) # GST_CLOCK_TIME_NONE
         /\ QosTime(m, timestamp) < m.earliest_time)

gst_videomixer_do_qos(m, timestamp) ==
    \/ ~GST_CLOCK_TIME_IS_VALID(timestamp)
    \/ ~GST_CLOCK_TIME_IS_VALID(m.earliest_time)
    \/ ~(QosTime(m, timestamp) # GST_CLOCK_TIME_NONE
         /\ QosTime(m, timestamp) <= m.earliest_time)

\* ---------------------------------------------------------- update_queues
\* the interval update_queues subtracts
Interval(m, pads) ==
    IF pads[m.master].queued <= 0
    THEN IF m.fps_n = 0 THEN G_MAXINT64
         ELSE gst_util_uint64_scale_int(GST_SECOND, m.fps_d, m.fps_n)
    ELSE pads[m.master].queued

\* the pads whose buffer update_queues releases and pops
ExhaustedStrict(m, pads) ==
    {id \in DOMAIN pads :
        pads[id].buffer # NoBuffer /\ pads[id].queued - Interval(m, pads) < 0}

Exhausted(m, pads) ==
    {id \in DOMAIN pads :
        pads[id].buffer # NoBuffer /\ pads[id].queued - Interval(m, pads) <= 0}

UpdateQueuesSkipped(m, pads) == pads

gst_videomixer_update_queues(m, pads) ==
    [id \in DOMAIN pads |->
        IF pads[id].buffer # NoBuffer
        THEN [pads[id] EXCEPT !.queued = @ - Interval(m, pads),
                              !.buffer = IF id \in Exhausted(m, pads)
                                         THEN NoBuffer ELSE @]
        ELSE pads[id]]

\* gst_collect_pads_pop for the exhausted pads
Popped(cd, ids) ==
    [id \in DOMAIN cd |->
        IF id \in ids THEN [cd[id] EXCEPT !.buffer = NoBuffer] ELSE cd[id]]

\* ---------------------------------------------------------- blend_buffers
\* the blend call made for a pad that holds a buffer
BlendCall(id, p) ==
    IF p.width = 0 \/ p.height = 0
       \/ (p.in_width = p.width /\ p.in_height = p.height)
    THEN [id |-> id, n |-> p.buffer.n, scaled |-> FALSE,
          xpos |-> p.xpos, ypos |-> p.ypos,
          width |-> p.in_width, height |-> p.in_height, alpha |-> p.alpha]
    ELSE [id |-> id, n |-> p.buffer.n, scaled |-> TRUE,
          xpos |-> p.xpos, ypos |-> p.ypos,
          width |-> p.width, height |-> p.height, alpha |-> p.alpha]

\* the blend calls of one pass, in the order they are made
RECURSIVE BlendWalkReversed(_, _, _)
BlendWalkReversed(list, pads, i) ==
    IF i > Len(list) THEN <<>>
    ELSE BlendWalkReversed(list, pads, i + 1)
         \o (IF pads[list[i]].buffer # NoBuffer
             THEN <<BlendCall(list[i], pads[list[i]])>> ELSE <<>>)

RECURSIVE BlendWalk(_, _, _)
BlendWalk(list, pads, i) ==
    IF i > Len(list) THEN <<>>
    ELSE (IF pads[list[i]].buffer # NoBuffer
          THEN <<BlendCall(list[i], pads[list[i]])>> ELSE <<>>)
         \o BlendWalk(list, pads, i + 1)

gst_videomixer_blend_buffers(list, pads) == BlendWalk(list, pads, 1)

\* ------------------------------------------------------------- collected
\* the timestamp and duration of the cycle: those of the master's buffer, or
\* the last ones when the master holds none
CycleTimeNotAdvanced(m, pads) ==
    IF pads[m.master].buffer # NoBuffer
    THEN [ts |-> gst_segment_to_running_time(pads[m.master].segment,
                                             pads[m.master].buffer.ts),
          dur |-> pads[m.master].buffer.dur]
    ELSE [ts |-> IF GST_CLOCK_TIME_IS_VALID(m.last_duration)
                 THEN (m.last_ts - m.last_duration) % ClockMod ELSE m.last_ts,
          dur |-> m.last_duration]

CycleTimeUnmapped(m, pads) ==
    IF pads[m.master].buffer # NoBuffer
    THEN [ts |-> pads[m.master].buffer.ts, dur |-> pads[m.master].buffer.dur]
    ELSE [ts |-> m.last_ts, dur |-> m.last_duration]

CycleTime(m, pads) ==
    IF pads[m.master].buffer # NoBuffer
    THEN [ts |-> gst_segment_to_running_time(pads[m.master].segment,
                                             pads[m.master].buffer.ts),
          dur |-> pads[m.master].buffer.dur]
    ELSE [ts |-> m.last_ts, dur |-> m.last_duration]

\* last_ts and last_duration after the cycle
TimeStored(m, t) ==
    [m EXCEPT !.last_ts = IF GST_CLOCK_TIME_IS_VALID(t.dur)
                          THEN (t.ts + t.dur) % ClockMod ELSE t.ts,
              !.last_duration = t.dur]

NeedsCapsBySizeOnly(m) ==
    m.in_width # m.out_width \/ m.in_height # m.out_height

\* the caps are set again when the geometry differs or setcaps is marked
NeedsCaps(m) ==
    m.in_width # m.out_width \/ m.in_height # m.out_height \/ m.setcaps

CapsSet(m) ==
    IF NeedsCaps(m)
    THEN [m EXCEPT !.out_width = m.in_width, !.out_height = m.in_height,
                   !.setcaps = FALSE]
    ELSE m


\* gst_videomixer_collected; alloc_ok tells whether the output buffer can
\* be allocated
\* the state lock of the mixer, as gst_videomixer_collected takes and
\* releases it
GST_VIDEO_MIXER_STATE_LOCK(m) == [m EXCEPT !.state_lock = TRUE]

StateLockKept(m) == m

GST_VIDEO_MIXER_STATE_UNLOCK(m) == [m EXCEPT !.state_lock = FALSE]

FlushStopAlways(m) == TRUE

\* g_atomic_int_compare_and_exchange (&mix->flush_stop_pending, TRUE, FALSE):
\* whether it exchanged; the flag is FALSE afterwards either way
g_atomic_int_compare_and_exchange(m) == m.flush_stop_pending

\* the history after a step that found the flag as it is in m and pushed
\* FLUSH_STOP or not
FlushCounted(h, m, pushed) ==
    [h EXCEPT !.fclears = IF m.flush_stop_pending THEN Min(@ + 1, 2) ELSE @,
              !.fstops = IF pushed THEN Min(@ + 1, 2) ELSE @]

NotNegotiatedNever(m) == FALSE

\* the test before anything else: no input geometry yet
NotNegotiated(m) == m.in_width = 0

gst_videomixer_collected(alloc_ok) ==
    /\ pending /\ Ready(collect)
    /\ IF NotNegotiated(mix)
       THEN /\ down' = [Quiet("collected") EXCEPT !.ret = "NOT_NEGOTIATED"]
            /\ pending' = FALSE
            /\ UNCHANGED <<sinkpads, pad, mix, collect, seekpc, aggpc, qospc, hist>>
       ELSE
         LET m0 == GST_VIDEO_MIXER_STATE_LOCK(
                       [mix EXCEPT !.flush_stop_pending = FALSE])
             pads1 == FilledPads(pad, collect)
             h0 == SeekServed(
                     FramesFetched(
                         FlushCounted(hist, mix,
                                      g_atomic_int_compare_and_exchange(mix)),
                         pad, collect),
                     m0, pads1)
             m1 == SegmentSent(m0, pads1)
             m2 == CapsSet(m1)
             t == CycleTime(m2, pads1)
             m3 == TimeStored(m2, t)
             ex == Exhausted(m3, pads1)
             base == [Quiet("collected") EXCEPT
                         !.flush_stop = g_atomic_int_compare_and_exchange(mix),
                         !.newseg = SendsSegment(m0, pads1),
                          !.segment = SegmentPushed(m0, pads1),
                         !.held = {id \in DOMAIN pads1 : pads1[id].buffer # NoBuffer},
                         !.valid = {id \in DOMAIN pads1 :
                                       GST_CLOCK_TIME_IS_VALID(pads1[id].queued)},
                         !.queued = [id \in DOMAIN pads1 |-> pads1[id].queued],
                         !.changes = hist.changes,
                         !.failed = hist.failed]
             counted == IF NeedsCaps(m1) THEN 0 ELSE hist.changes
             timed == [base EXCEPT !.caps = NeedsCaps(m1),
                                   !.ts = t.ts, !.dur = t.dur,
                                   !.mbuf = pads1[m2.master].buffer,
                                   !.prev = hist.prev,
                                   !.qostime = QosTime(m3, t.ts)]
         IN  IF FillEos(pads1)
             THEN /\ pad' = pads1
                  /\ mix' = GST_VIDEO_MIXER_STATE_UNLOCK(m1)
                  /\ down' = [base EXCEPT !.eos = TRUE, !.ret = "WRONG_STATE"]
                  /\ pending' = FALSE
                  /\ hist' = [h0 EXCEPT !.eos = Min(@ + 1, 2), !.clean = {},
                                           !.failed = <<>>]
                  /\ UNCHANGED <<sinkpads, collect, seekpc, aggpc, qospc>>
             ELSE IF ~gst_videomixer_do_qos(m3, t.ts)
             THEN /\ pad' = gst_videomixer_update_queues(m3, pads1)
                  /\ collect' = Popped(collect, ex)
                  /\ mix' = GST_VIDEO_MIXER_STATE_UNLOCK(m3)
                  /\ down' = [timed EXCEPT !.dropped = TRUE, !.popped = ex]
                  /\ pending' = (Ready(collect') /\ Queued(collect'))
                  /\ hist' = [FramesReleased(h0, pads1, ex)
                                EXCEPT !.clean = {}, !.prev = <<t.ts, t.dur>>,
                                       !.changes = counted, !.failed = <<>>]
                  /\ UNCHANGED <<sinkpads, seekpc, aggpc, qospc>>
             ELSE IF ~alloc_ok
             THEN /\ pad' = pads1
                  /\ mix' = GST_VIDEO_MIXER_STATE_UNLOCK(m3)
                  /\ down' = [timed EXCEPT !.ret = "ERROR"]
                  /\ pending' = FALSE
                  /\ hist' = [h0 EXCEPT !.clean = {}, !.prev = <<t.ts, t.dur>>,
                                           !.changes = counted,
                                           !.failed = <<base.held>>]
                  /\ UNCHANGED <<sinkpads, collect, seekpc, aggpc, qospc>>
             ELSE /\ pad' = gst_videomixer_update_queues(m3, pads1)
                  /\ collect' = Popped(collect, ex)
                  /\ mix' = GST_VIDEO_MIXER_STATE_UNLOCK(m3)
                  /\ down' = [timed EXCEPT
                                 !.alloc = TRUE, !.bg = TRUE,
                                 !.frame = TRUE, !.popped = ex,
                                 !.blended =
                                     gst_videomixer_blend_buffers(sinkpads, pads1)]
                  /\ pending' = (Ready(collect') /\ Queued(collect'))
                  /\ hist' = [FramesReleased(h0, pads1, ex)
                                EXCEPT !.late = @ \/ hist.eos > 0, !.clean = {},
                                           !.prev = <<t.ts, t.dur>>,
                                           !.changes = counted, !.failed = <<>>]
                  /\ UNCHANGED <<sinkpads, seekpc, aggpc, qospc>>

\* ------------------------------------------- the cycle, thread by thread
\* gst_videomixer_collected up to the call of gst_videomixer_blend_buffers,
\* for a cycle that comes that far: the state lock stays taken
CollectedEnter ==
    /\ pending /\ Ready(collect) /\ aggpc = Outside
    /\ ~NotNegotiated(mix)
    /\ LET m0 == GST_VIDEO_MIXER_STATE_LOCK(
                      [mix EXCEPT !.flush_stop_pending = FALSE])
           pads1 == FilledPads(pad, collect)
           h0 == SeekServed(
                     FramesFetched(
                         FlushCounted(hist, mix,
                                      g_atomic_int_compare_and_exchange(mix)),
                         pad, collect),
                     m0, pads1)
           m1 == SegmentSent(m0, pads1)
           m2 == CapsSet(m1)
           t == CycleTime(m2, pads1)
           m3 == TimeStored(m2, t)
       IN  /\ ~FillEos(pads1)
           /\ gst_videomixer_do_qos(m3, t.ts)
           /\ pad' = pads1
           /\ mix' = m3
           /\ aggpc' =
                 [step |-> "allocate", walk |-> 1, tbuf |-> <<>>,
                  calls |-> <<>>, tbufs |-> <<>>,
                  report |->
                      [Quiet("collected") EXCEPT
                          !.flush_stop = g_atomic_int_compare_and_exchange(mix),
                          !.newseg = SendsSegment(m0, pads1),
                          !.segment = SegmentPushed(m0, pads1),
                          !.was = GeomFlags(mix),
                          !.held = {id \in DOMAIN pads1 :
                                        pads1[id].buffer # NoBuffer},
                          !.valid = {id \in DOMAIN pads1 :
                                        GST_CLOCK_TIME_IS_VALID(pads1[id].queued)},
                          !.queued = [id \in DOMAIN pads1 |-> pads1[id].queued],
                          !.changes = hist.changes, !.failed = hist.failed,
                          !.caps = NeedsCaps(m1), !.ts = t.ts, !.dur = t.dur,
                          !.mbuf = pads1[m2.master].buffer, !.prev = hist.prev,
                          !.qostime = QosTime(m3, t.ts),
                          !.alloc = TRUE, !.bg = TRUE]]
           /\ hist' = [h0 EXCEPT !.clean = {}, !.prev = <<t.ts, t.dur>>,
                                   !.changes = IF NeedsCaps(m1) THEN 0 ELSE @,
                                   !.failed = <<>>]
    /\ pending' = FALSE
    /\ down' = Quiet("collected_enter")
    /\ UNCHANGED <<sinkpads, collect, seekpc, qospc>>

\* gst_videomixer_blend_buffers, the temporary buffer of the pad the walk
\* stands on: <<columns, rows>> it has room for, <<>> for the NULL pointer
TemporaryBuffer(p) ==
    IF p.width # 0 /\ p.height # 0
    THEN <<Max(p.in_width, p.width), Max(p.in_height, p.height)>>
    ELSE <<>>

BlendAllocate ==
    /\ aggpc.step = "allocate" /\ aggpc.walk <= Len(sinkpads)
    /\ aggpc' = [aggpc EXCEPT !.step = "blend",
                              !.tbuf = TemporaryBuffer(pad[sinkpads[aggpc.walk]])]
    /\ down' = Quiet("blend_allocate")
    /\ UNCHANGED <<sinkpads, pad, mix, collect, pending, seekpc, qospc, hist>>

\* gst_videomixer_blend_buffers, the rest of the loop body: the pad is
\* blended, through the temporary buffer when it is scaled, and the
\* temporary buffer is freed
BlendPad ==
    /\ aggpc.step = "blend"
    /\ LET id == sinkpads[aggpc.walk]
       IN  aggpc' =
             IF pad[id].buffer # NoBuffer
             THEN [aggpc EXCEPT !.step = "allocate", !.walk = @ + 1,
                                !.tbuf = <<>>,
                                !.calls = Append(@, BlendCall(id, pad[id])),
                                !.tbufs = Append(@, aggpc.tbuf)]
             ELSE [aggpc EXCEPT !.step = "allocate", !.walk = @ + 1,
                                !.tbuf = <<>>]
    /\ down' = Quiet("blend_pad")
    /\ UNCHANGED <<sinkpads, pad, mix, collect, pending, seekpc, qospc, hist>>

\* gst_videomixer_collected after gst_videomixer_blend_buffers returned
CollectedLeave ==
    /\ aggpc.step = "allocate" /\ aggpc.walk > Len(sinkpads)
    /\ LET ex == Exhausted(mix, pad)
       IN  /\ pad' = gst_videomixer_update_queues(mix, pad)
           /\ collect' = Popped(collect, ex)
           /\ down' = [aggpc.report EXCEPT !.frame = TRUE, !.popped = ex,
                                           !.blended = aggpc.calls,
                                           !.tbufs = aggpc.tbufs]
    /\ mix' = GST_VIDEO_MIXER_STATE_UNLOCK(mix)
    /\ pending' = (Ready(collect') /\ Queued(collect'))
    /\ aggpc' = Outside
    /\ hist' = [FramesReleased(hist, pad, Exhausted(mix, pad))
                  EXCEPT !.late = @ \/ hist.eos > 0]
    /\ UNCHANGED <<sinkpads, seekpc, qospc>>

\* gst_videomixer_collected after gst_videomixer_blend_buffers returned, up
\* to GST_VIDEO_MIXER_STATE_UNLOCK
CollectedUnlock ==
    /\ aggpc.step = "allocate" /\ aggpc.walk > Len(sinkpads)
    /\ LET ex == Exhausted(mix, pad)
       IN  /\ pad' = gst_videomixer_update_queues(mix, pad)
           /\ collect' = Popped(collect, ex)
           /\ aggpc' = [step |-> "push",
                        report |-> [aggpc.report EXCEPT !.frame = TRUE,
                                                        !.popped = ex,
                                                        !.blended = aggpc.calls,
                                                        !.tbufs = aggpc.tbufs]]
    /\ mix' = GST_VIDEO_MIXER_STATE_UNLOCK(mix)
    /\ pending' = FALSE
    /\ down' = Quiet("collected_unlock")
    /\ hist' = FramesReleased(hist, pad, Exhausted(mix, pad))
    /\ UNCHANGED <<sinkpads, seekpc, qospc>>

\* gst_videomixer_collected, gst_pad_push of the output buffer and return
CollectedPush ==
    /\ aggpc.step = "push"
    /\ down' = aggpc.report
    /\ aggpc' = Outside
    /\ pending' = (Ready(collect) /\ Queued(collect))
    /\ hist' = [hist EXCEPT !.late = @ \/ hist.eos > 0]
    /\ UNCHANGED <<sinkpads, pad, mix, collect, seekpc, qospc>>

\* ------------------------------------------------- the QoS pair, by steps
\* GST_OBJECT_LOCK (mix) can be taken
ObjectLockIgnored(m) == TRUE

ObjectLockFree(m) == m.object_lock = "free"

\* gst_videomixer_src_event, QOS: gst_videomixer_update_qos takes the lock
QosEventLock(proportion, diff, timestamp) ==
    /\ qospc = Outside
    /\ mix.fps_n # 0
    /\ ObjectLockFree(mix)
    /\ mix' = [mix EXCEPT !.object_lock = "event"]
    /\ qospc' = [step |-> "proportion", proportion |-> proportion,
                 diff |-> diff, timestamp |-> timestamp]
    /\ down' = Quiet("qos_lock")
    /\ UNCHANGED <<sinkpads, pad, collect, pending, seekpc, aggpc, hist>>

\* gst_videomixer_update_qos: mix->proportion = proportion
QosEventProportion ==
    /\ qospc.step = "proportion"
    /\ mix' = [mix EXCEPT !.proportion = qospc.proportion]
    /\ qospc' = [qospc EXCEPT !.step = "earliest_time"]
    /\ down' = Quiet("qos_proportion")
    /\ UNCHANGED <<sinkpads, pad, collect, pending, seekpc, aggpc, hist>>

\* gst_videomixer_update_qos: mix->earliest_time is written and the lock
\* is released
QosEventTime ==
    /\ qospc.step = "earliest_time"
    /\ mix' = [gst_videomixer_update_qos(mix, qospc.proportion, qospc.diff,
                                         qospc.timestamp)
                  EXCEPT !.object_lock = "free"]
    /\ qospc' = Outside
    /\ down' = Quiet("qos")
    /\ hist' = [hist EXCEPT !.written =
                    @ \cup { <<mix'.proportion, mix'.earliest_time>> }]
    /\ UNCHANGED <<sinkpads, pad, collect, pending, seekpc, aggpc>>

\* gst_videomixer_collected up to the call of gst_videomixer_do_qos for a
\* valid timestamp
CollectedFetch ==
    /\ pending /\ Ready(collect) /\ aggpc = Outside
    /\ ~NotNegotiated(mix)
    /\ LET m0 == GST_VIDEO_MIXER_STATE_LOCK(
                      [mix EXCEPT !.flush_stop_pending = FALSE])
           pads1 == FilledPads(pad, collect)
           h0 == SeekServed(
                     FramesFetched(
                         FlushCounted(hist, mix,
                                      g_atomic_int_compare_and_exchange(mix)),
                         pad, collect),
                     m0, pads1)
           m1 == SegmentSent(m0, pads1)
           m2 == CapsSet(m1)
           t == CycleTime(m2, pads1)
           m3 == TimeStored(m2, t)
       IN  /\ ~FillEos(pads1)
           /\ GST_CLOCK_TIME_IS_VALID(t.ts)
           /\ pad' = pads1
           /\ mix' = m3
           /\ aggpc' =
                 [step |-> "read_qos", proportion |-> 0, earliest_time |-> 0,
                  report |->
                      [Quiet("collected") EXCEPT
                          !.flush_stop = g_atomic_int_compare_and_exchange(mix),
                          !.newseg = SendsSegment(m0, pads1),
                          !.segment = SegmentPushed(m0, pads1),
                          !.held = {id \in DOMAIN pads1 :
                                        pads1[id].buffer # NoBuffer},
                          !.valid = {id \in DOMAIN pads1 :
                                        GST_CLOCK_TIME_IS_VALID(pads1[id].queued)},
                          !.queued = [id \in DOMAIN pads1 |-> pads1[id].queued],
                          !.changes = hist.changes, !.failed = hist.failed,
                          !.caps = NeedsCaps(m1), !.ts = t.ts, !.dur = t.dur,
                          !.mbuf = pads1[m2.master].buffer, !.prev = hist.prev]]
           /\ hist' = [h0 EXCEPT !.clean = {}, !.prev = <<t.ts, t.dur>>,
                                   !.changes = IF NeedsCaps(m1) THEN 0 ELSE @,
                                   !.failed = <<>>]
    /\ pending' = FALSE
    /\ down' = Quiet("collected_fetch")
    /\ UNCHANGED <<sinkpads, collect, seekpc, qospc>>

\* gst_videomixer_read_qos: the lock is taken
ReadQosLock ==
    /\ aggpc.step = "read_qos"
    /\ ObjectLockFree(mix)
    /\ mix' = [mix EXCEPT !.object_lock = "collected"]
    /\ aggpc' = [aggpc EXCEPT !.step = "read_proportion"]
    /\ down' = Quiet("read_qos_lock")
    /\ UNCHANGED <<sinkpads, pad, collect, pending, seekpc, qospc, hist>>

\* gst_videomixer_read_qos: *proportion = mix->proportion
ReadQosProportion ==
    /\ aggpc.step = "read_proportion"
    /\ aggpc' = [aggpc EXCEPT !.step = "read_earliest_time",
                              !.proportion = mix.proportion]
    /\ down' = Quiet("read_qos_proportion")
    /\ UNCHANGED <<sinkpads, pad, mix, collect, pending, seekpc, qospc, hist>>

\* gst_videomixer_read_qos: *time = mix->earliest_time, the lock is released
ReadQosTime ==
    /\ aggpc.step = "read_earliest_time"
    /\ aggpc' = [aggpc EXCEPT !.step = "decide",
                              !.earliest_time = mix.earliest_time]
    /\ mix' = [mix EXCEPT !.object_lock = "free"]
    /\ down' = Quiet("read_qos_time")
    /\ UNCHANGED <<sinkpads, pad, collect, pending, seekpc, qospc, hist>>

\* gst_videomixer_do_qos after the read, and the rest of the cycle: the
\* frame is dropped, or allocated, composited and pushed
CollectedDecide ==
    /\ aggpc.step = "decide"
    /\ LET seen == [mix EXCEPT !.proportion = aggpc.proportion,
                               !.earliest_time = aggpc.earliest_time]
           ex == Exhausted(mix, pad)
           timed == [aggpc.report EXCEPT
                        !.qostime = QosTime(seen, aggpc.report.ts),
                        !.qos_read = <<aggpc.proportion, aggpc.earliest_time>>,
                        !.popped = ex]
       IN  /\ down' =
                 IF gst_videomixer_do_qos(seen, aggpc.report.ts)
                 THEN [timed EXCEPT
                          !.alloc = TRUE, !.bg = TRUE, !.frame = TRUE,
                          !.blended = gst_videomixer_blend_buffers(sinkpads, pad)]
                 ELSE [timed EXCEPT !.dropped = TRUE]
           /\ pad' = gst_videomixer_update_queues(mix, pad)
           /\ collect' = Popped(collect, ex)
           /\ hist' = [FramesReleased(hist, pad, ex)
                         EXCEPT !.late = @ \/ (down'.frame /\ hist.eos > 0)]
    /\ mix' = GST_VIDEO_MIXER_STATE_UNLOCK(mix)
    /\ pending' = (Ready(collect') /\ Queued(collect'))
    /\ aggpc' = Outside
    /\ UNCHANGED <<sinkpads, seekpc, qospc>>

\* GstCollectPads calls the function again when a pad is pushed to after
\* the error return; what was collected stays
CollectAgain ==
    /\ ~pending /\ Ready(collect)
    /\ hist.failed # <<>>
    /\ hist.retries < MaxRetries
    /\ pending' = TRUE
    /\ down' = Quiet("collect_again")
    /\ hist' = [hist EXCEPT !.retries = @ + 1]
    /\ UNCHANGED <<sinkpads, pad, mix, collect, seekpc, aggpc, qospc>>

\* ----------------------------------------------------------------- events
\* gst_videomixer_sink_event, FLUSH_START: left to GstCollectPads, which
\* marks the pad flushing and drops its queued buffer
SinkEventFlushStart(id) ==
    /\ InList(sinkpads, id)
    /\ ~collect[id].flushing
    /\ collect' = [collect EXCEPT ![id] =
                      [@ EXCEPT !.flushing = TRUE, !.buffer = NoBuffer]]
    /\ pending' = (pending /\ Ready(collect'))
    /\ down' = Quiet("sink_flush_start")
    /\ UNCHANGED <<sinkpads, pad, mix, seekpc, aggpc, qospc, hist>>

\* the pad after the FLUSH_STOP branch of gst_videomixer_sink_event
PadFlushedKeepsQueued(p) == [p EXCEPT !.buffer = NoBuffer]

PadFlushed(p) == [p EXCEPT !.buffer = NoBuffer, !.queued = 0]

\* gst_videomixer_sink_event, FLUSH_STOP
SinkEventFlushStop(id) ==
    /\ InList(sinkpads, id)
    /\ collect[id].flushing
    /\ mix' = gst_videomixer_reset_qos(
                  [mix EXCEPT !.sendseg = TRUE, !.flush_stop_pending = FALSE])
    /\ pad' = [pad EXCEPT ![id] = [PadFlushed(@) EXCEPT !.segment = Segment(0, 0)]]
    /\ collect' = [collect EXCEPT ![id] =
                      [@ EXCEPT !.flushing = FALSE, !.buffer = NoBuffer,
                                !.eos = FALSE]]
    /\ pending' = (pending /\ Ready(collect'))
    /\ down' = [Quiet("sink_flush_stop") EXCEPT
                   !.held = IF pad[id].buffer # NoBuffer THEN {id} ELSE {}]
    /\ hist' = [FramesReleased(FlushCounted(hist, mix, FALSE), pad, {id})
                  EXCEPT !.eos = 0, !.late = FALSE, !.clean = @ \cup {id},
                         !.report = <<>>]
    /\ UNCHANGED <<sinkpads, seekpc, aggpc, qospc>>

\* gst_videomixer_sink_event, NEWSEGMENT: the pad's upstream starts a
\* segment; seg is the pad's segment once GstCollectPads has applied the event
SinkEventNewSegment(id, seg) ==
    /\ InList(sinkpads, id)
    /\ collect[id].buffer = NoBuffer
    /\ ~collect[id].eos /\ ~collect[id].flushing
    /\ mix' = IF mix.master = NoPad \/ mix.master = id
              THEN gst_videomixer_reset_qos([mix EXCEPT !.sendseg = TRUE])
              ELSE mix
    /\ pad' = [pad EXCEPT ![id].segment = seg]
    /\ down' = Quiet("sink_newsegment")
    /\ hist' = [hist EXCEPT !.report =
                    IF mix.master = NoPad \/ mix.master = id THEN <<>> ELSE @]
    /\ UNCHANGED <<sinkpads, collect, pending, seekpc, aggpc, qospc>>

\* gst_collect_pads_set_flushing (TRUE) and then (FALSE): every pad's
\* queued buffer is dropped
AllCleared(cd) == [id \in DOMAIN cd |-> [cd[id] EXCEPT !.buffer = NoBuffer]]

\* gst_videomixer_src_event, SEEK, up to forwarding the event upstream
SrcEventSeekBegin(flush, curtype_set, cur) ==
    /\ seekpc = "idle"
    /\ mix' = gst_videomixer_reset_qos(
                  [mix EXCEPT !.segment_position = IF curtype_set THEN cur ELSE 0,
                              !.sendseg = TRUE,
                              !.flush_stop_pending = IF flush THEN TRUE ELSE @])
    /\ collect' = IF flush THEN AllCleared(collect) ELSE collect
    /\ pending' = (pending /\ Ready(collect'))
    /\ seekpc' = "forward"
    /\ UNCHANGED <<aggpc, qospc>>
    /\ down' = [Quiet("seek_begin") EXCEPT !.flush_start = flush,
                                            !.seek = <<curtype_set, cur>>,
                                            !.was = GeomFlags(mix)]
    /\ hist' = IF flush
               THEN [hist EXCEPT !.eos = 0, !.late = FALSE, !.report = <<>>,
                                 !.fstart = TRUE, !.fclears = 0, !.fstops = 0,
                                 !.seek = <<mix'.segment_position>>]
               ELSE [hist EXCEPT !.eos = 0, !.late = FALSE, !.report = <<>>,
                                 !.seek = <<mix'.segment_position>>]
    /\ UNCHANGED <<sinkpads, pad>>

\* gst_videomixer_src_event, SEEK, after forward_event returned
SrcEventSeekEnd ==
    /\ seekpc = "forward"
    /\ mix' = [mix EXCEPT !.flush_stop_pending = FALSE]
    /\ seekpc' = "idle"
    /\ UNCHANGED <<aggpc, qospc>>
    /\ down' = [Quiet("seek_end") EXCEPT
                   !.flush_stop = g_atomic_int_compare_and_exchange(mix)]
    /\ hist' = FlushCounted(hist, mix, g_atomic_int_compare_and_exchange(mix))
    /\ UNCHANGED <<sinkpads, pad, collect, pending>>

\* gst_videomixer_src_event, QOS
SrcEventQos(proportion, diff, timestamp) ==
    /\ mix.fps_n # 0
    /\ mix' = gst_videomixer_update_qos(mix, proportion, diff, timestamp)
    /\ down' = Quiet("qos")
    /\ hist' = [hist EXCEPT !.report =
                    IF timestamp # GST_CLOCK_TIME_NONE
                    THEN <<diff, timestamp,
                           gst_util_uint64_scale_int(GST_SECOND, mix.fps_d, mix.fps_n)>>
                    ELSE <<>>]
    /\ UNCHANGED <<sinkpads, pad, collect, pending, seekpc, aggpc, qospc>>

\* ------------------------------------------------------ the streaming runs
\* a format is announced on a pad before its upstream sends data
Announce(id, c) ==
    /\ InList(sinkpads, id)
    /\ collect[id].sent = 0
    /\ gst_videomixer_pad_sink_setcaps(id, c[1], c[2], c[3], c[4], c[5], c[6])

\* a format is announced on a pad at any time its upstream is not waiting
\* in gst_collect_pads_chain for its buffer to be taken
Renegotiate(id, c) ==
    /\ InList(sinkpads, id)
    /\ collect[id].buffer = NoBuffer
    /\ gst_videomixer_pad_sink_setcaps(id, c[1], c[2], c[3], c[4], c[5], c[6])

\* pads are requested before any upstream sends data
NothingSent == \A id \in Registered : collect[id].sent = 0

\* the formats announced while streaming:
\* <<width, height, fps_n, fps_d, par_n, par_d>>
StreamCaps ==
    { <<100, 100, 10, 1, 1, 1>>, <<320, 240, 5, 1, 1, 1>>,
      <<100, 100, 0, 1, 1, 1>> }

\* pads are added and go to EOS while the others stream; the upstreams leave
\* the duration of their buffers unset
Next ==
    \/ gst_videomixer_request_new_pad(NoPad, MaxPads, FALSE)
    \/ \E id \in PadIds, c \in StreamCaps : Announce(id, c)
    \/ \E id \in PadIds : Chain(id, MaxFrames)
    \/ \E id \in PadIds : SinkEventEos(id)
    \/ \E a \in BOOLEAN : gst_videomixer_collected(a)

Spec == Init /\ [][Next]_vars

\* ------------------------------------------------------------ stop, start
\* gst_videomixer_reset: the mixer after it
gst_videomixer_reset(m) ==
    [gst_videomixer_reset_qos(m)
        EXCEPT !.in_width = 0, !.in_height = 0,
               !.out_width = 0, !.out_height = 0,
               !.fps_n = 0, !.fps_d = 0, !.par_n = 1, !.par_d = 1,
               !.setcaps = FALSE, !.sendseg = FALSE,
               !.segment_position = 0, !.segment = Segment(0, 0),
               !.last_ts = 0, !.last_duration = GST_CLOCK_TIME_NONE,
               !.next_sinkpad = 0, !.flush_stop_pending = FALSE,
               !.method = DEFAULT_PROP_METHOD]

\* gst_collect_pads_stop: every pad is set flushing and its queued buffer
\* and its EOS mark are dropped
CollectPadsStopped(cd) ==
    [id \in DOMAIN cd |->
        [cd[id] EXCEPT !.flushing = TRUE, !.buffer = NoBuffer, !.eos = FALSE]]

\* gst_videomixer_change_state, PAUSED to READY: the parent class has
\* stopped the streaming threads when the reset runs
ChangeStatePausedToReady ==
    /\ seekpc = "idle" /\ aggpc = Outside /\ qospc = Outside
    /\ sinkpads # <<>>
    /\ \E id \in Registered : ~collect[id].flushing
    /\ collect' = CollectPadsStopped(collect)
    /\ pending' = FALSE
    /\ mix' = gst_videomixer_reset(mix)
    /\ pad' = [id \in Registered |-> gst_videomixer_collect_free(pad[id])]
    /\ down' = [Quiet("stop") EXCEPT !.held = Freed(pad, Registered)]
    /\ hist' = [FramesReleased(hist, pad, Freed(pad, Registered))
                  EXCEPT !.report = <<>>, !.eos = 0, !.late = FALSE,
                         !.seek = <<>>]
    /\ UNCHANGED <<sinkpads, seekpc, aggpc, qospc>>

\* gst_videomixer_change_state, READY to PAUSED: gst_collect_pads_start ends
\* the flushing of every pad
ChangeStateReadyToPaused ==
    /\ sinkpads # <<>>
    /\ \A id \in Registered : collect[id].flushing
    /\ collect' = [id \in Registered |-> [collect[id] EXCEPT !.flushing = FALSE]]
    /\ down' = Quiet("start")
    /\ UNCHANGED <<sinkpads, pad, mix, pending, seekpc, aggpc, qospc, hist>>

\* the ports of the documented example, with their properties set before
\* the upstreams send data
ExamplePorts == 2

\* ---------------------------------------------------------- the flush runs
FlushCaps == { <<100, 100, 10, 1, 1, 1>>, <<320, 240, 5, 1, 1, 1>> }

SeekPositions == {100}

FlushNext ==
    \/ NothingSent /\ gst_videomixer_request_new_pad(NoPad, ExamplePorts, TRUE)
    \/ \E id \in PadIds, c \in FlushCaps : NothingSent /\ Announce(id, c)
    \/ \E id \in PadIds : Chain(id, MaxFrames)
    \/ gst_videomixer_collected(TRUE)
    \/ \E id \in PadIds : SinkEventFlushStart(id)
    \/ \E id \in PadIds : SinkEventFlushStop(id)
    \/ \E f \in BOOLEAN, c \in SeekPositions : SrcEventSeekBegin(f, TRUE, c)
    \/ SrcEventSeekEnd

SpecFlush == Init /\ [][FlushNext]_vars

\* ------------------------------------------------------------ the QoS runs
QosCaps == { <<100, 100, 10, 1, 1, 1>>, <<320, 240, 5, 1, 1, 1>> }

\* the segments the upstream of a pad announces: the initial one, and one
\* that starts at 100 ms after 100 ms were played
Segments == { Segment(0, 0), Segment(100, 100), Segment(0, 50) }

\* the reports of the sink: <<diff, timestamp>>
QosReports ==
    { <<20, 0>>, <<20, 60>>, <<0, 100>>, <<0 - 20, 100>>,
      <<20, GST_CLOCK_TIME_NONE>> }

QosNext ==
    \/ NothingSent /\ gst_videomixer_request_new_pad(NoPad, QosMaxPads, TRUE)
    \/ \E id \in PadIds, c \in QosCaps : Announce(id, c)
    \/ \E id \in PadIds, seg \in Segments : SinkEventNewSegment(id, seg)
    \/ \E id \in PadIds : Chain(id, QosMaxFrames)
    \/ gst_videomixer_collected(TRUE)
    \/ \E r \in QosReports : SrcEventQos(50, r[1], r[2])

SpecQos == Init /\ [][QosNext]_vars

\* --------------------------------------------------------- the pacing runs
\* gap-free streams at 10 and 5 frames per second, with durations
PaceCaps == { <<100, 100, 10, 1, 1, 1>>, <<320, 240, 5, 1, 1, 1>> }

PaceNext ==
    \/ NothingSent /\ gst_videomixer_request_new_pad(NoPad, MaxPads, TRUE)
    \/ \E id \in PadIds, c \in PaceCaps : NothingSent /\ Announce(id, c)
    \/ \E id \in PadIds : Chain(id, PaceTicks)
    \/ gst_videomixer_collected(TRUE)

SpecPace == Init /\ [][PaceNext]_vars

\* ------------------------------------------------------ the two-port runs
MixCaps == { <<100, 100, 10, 1, 1, 1>>, <<320, 240, 5, 1, 1, 1>> }
MixAlphas == {70, 100}
MixOffsets == {0, 20}

MixNext ==
    \/ NothingSent /\ gst_videomixer_request_new_pad(NoPad, ExamplePorts, TRUE)
    \/ \E id \in PadIds, z \in 0 .. MaxZorder : NothingSent /\ SetZorder(id, z)
    \/ \E id \in PadIds, a \in MixAlphas :
          NothingSent /\ SetPadProperty(id, "alpha", a)
    \/ \E id \in PadIds, x \in MixOffsets :
          NothingSent /\ SetPadProperty(id, "xpos", x)
    \/ \E id \in PadIds, c \in MixCaps : NothingSent /\ Announce(id, c)
    \/ \E id \in PadIds : Chain(id, MaxFrames)
    \/ \E id \in PadIds : SinkEventEos(id)
    \/ gst_videomixer_collected(TRUE)

SpecMix == Init /\ [][MixNext]_vars

\* ----------------------------------------------------- the z-order runs
\* pads are added, removed and given z-orders before the upstreams send
\* data; every stream has the same format
OrderCaps == { <<100, 100, 10, 1, 1, 1>> }

OrderNext ==
    \/ NothingSent /\ gst_videomixer_request_new_pad(NoPad, OrderMaxPads, TRUE)
    \/ \E id \in PadIds : NothingSent /\ gst_videomixer_release_pad(id)
    \/ \E id \in PadIds, z \in 0 .. MaxZorder : NothingSent /\ SetZorder(id, z)
    \/ \E id \in PadIds, c \in OrderCaps :
          InList(sinkpads, id) /\ pad[id].in_width = 0 /\ Announce(id, c)
    \/ \E id \in PadIds : Chain(id, MaxFrames)
    \/ gst_videomixer_collected(TRUE)

SpecOrder == Init /\ [][OrderNext]_vars

\* pads are added, removed and given z-orders, nothing streams
ZorderNext ==
    \/ gst_videomixer_request_new_pad(NoPad, OrderMaxPads, TRUE)
    \/ \E id \in PadIds : gst_videomixer_release_pad(id)
    \/ \E id \in PadIds, z \in 0 .. MaxZorder : SetZorder(id, z)

SpecZorder == Init /\ [][ZorderNext]_vars

\* ---------------------------------------------------- the registry runs
\* the formats announced in the registry runs:
\* <<width, height, fps_n, fps_d, par_n, par_d>>
\* the runs with a property thread: the position, size and opacity of a pad
\* are set while the aggregation thread is inside a cycle
TearCaps == { <<100, 100, 10, 1, 1, 1>> }
TearSizes == {0, 50}
TearAlphas == {50, 100}

TearNext ==
    \/ NothingSent /\ aggpc = Outside
          /\ gst_videomixer_request_new_pad(NoPad, QosMaxPads, TRUE)
    \/ \E id \in PadIds, c \in TearCaps : NothingSent /\ Announce(id, c)
    \/ \E id \in PadIds, prop \in {"width", "height"}, v \in TearSizes :
          SetPadProperty(id, prop, v)
    \/ \E id \in PadIds, v \in TearAlphas : SetPadProperty(id, "alpha", v)
    \/ \E id \in PadIds : Chain(id, MaxFrames)
    \/ CollectedEnter
    \/ BlendAllocate
    \/ BlendPad
    \/ CollectedLeave

SpecTear == Init /\ [][TearNext]_vars

\* the runs with a QoS thread: reports arrive while the aggregation thread
\* is inside a cycle
LockCaps == { <<100, 100, 10, 1, 1, 1>> }

\* the reports of the sink: <<proportion, diff, timestamp>>
LockReports == { <<80, 20, 0>>, <<30, 0 - 20, 100>> }

LockNext ==
    \/ NothingSent /\ aggpc = Outside
          /\ gst_videomixer_request_new_pad(NoPad, QosMaxPads, TRUE)
    \/ \E id \in PadIds, c \in LockCaps : NothingSent /\ Announce(id, c)
    \/ \E id \in PadIds : Chain(id, QosMaxFrames)
    \/ \E r \in LockReports : QosEventLock(r[1], r[2], r[3])
    \/ QosEventProportion
    \/ QosEventTime
    \/ CollectedFetch
    \/ ReadQosLock
    \/ ReadQosProportion
    \/ ReadQosTime
    \/ CollectedDecide

SpecLock == Init /\ [][LockNext]_vars

\* --------------------------------------------------- the stop / start runs
StopCaps == { <<100, 100, 10, 1, 1, 1>>, <<320, 240, 5, 1, 1, 1>> }

StopNext ==
    \/ NothingSent /\ gst_videomixer_request_new_pad(NoPad, ExamplePorts, TRUE)
    \/ \E id \in PadIds, c \in StopCaps : Announce(id, c)
    \/ \E id \in PadIds : Chain(id, MaxFrames)
    \/ gst_videomixer_collected(TRUE)
    \/ \E c \in SeekPositions : SrcEventSeekBegin(TRUE, TRUE, c)
    \/ SrcEventSeekEnd
    \/ ChangeStatePausedToReady
    \/ ChangeStateReadyToPaused

SpecStop == Init /\ [][StopNext]_vars

\* ------------------------------------------- the runs with released pads
ReleaseCaps == { <<100, 100, 10, 1, 1, 1>>, <<320, 240, 5, 1, 1, 1>> }

ReleaseNext ==
    \/ gst_videomixer_request_new_pad(NoPad, ExamplePorts, TRUE)
    \/ \E id \in PadIds, c \in ReleaseCaps : NothingSent /\ Announce(id, c)
    \/ \E id \in PadIds : Chain(id, MaxFrames)
    \/ gst_videomixer_collected(TRUE)
    \/ \E id \in PadIds : gst_videomixer_release_pad(id)
    \/ \E id \in PadIds : gst_videomixer_release_unknown_pad(id)

SpecRelease == Init /\ [][ReleaseNext]_vars

\* ----------------------------------- the runs with seeks and QoS reports
SeekCaps == { <<100, 100, 10, 1, 1, 1>>, <<320, 240, 5, 1, 1, 1>> }

\* the report of the sink: <<proportion, diff, timestamp>>
SeekReports == { <<80, 20, 0>> }

SeekNext ==
    \/ NothingSent /\ gst_videomixer_request_new_pad(NoPad, ExamplePorts, TRUE)
    \/ \E id \in PadIds, c \in SeekCaps : Renegotiate(id, c)
    \/ \E id \in PadIds : Chain(id, MaxFrames)
    \/ gst_videomixer_collected(TRUE)
    \/ \E r \in SeekReports : SrcEventQos(r[1], r[2], r[3])
    \/ \E f \in BOOLEAN, c \in SeekPositions : SrcEventSeekBegin(f, TRUE, c)
    \/ SrcEventSeekEnd

SpecSeek == Init /\ [][SeekNext]_vars

\* ------------------------------------- the runs with the segment events
\* the cycle runs by steps: the part under the state lock, then the push;
\* gst_videomixer_release_pad waits for the state lock, the seek for the
\* lock of the GstCollectPads, which is held while the cycle runs
SegCaps == { <<100, 100, 10, 1, 1, 1>>, <<320, 240, 5, 1, 1, 1>> }

SegNext ==
    \/ NothingSent /\ ~mix.state_lock
          /\ gst_videomixer_request_new_pad(NoPad, ExamplePorts, TRUE)
    \/ \E id \in PadIds, c \in SegCaps : NothingSent /\ Announce(id, c)
    \/ \E id \in PadIds : Chain(id, MaxFrames)
    \/ CollectedEnter
    \/ BlendAllocate
    \/ BlendPad
    \/ CollectedUnlock
    \/ CollectedPush
    \/ \E id \in PadIds : ~mix.state_lock /\ gst_videomixer_release_pad(id)
    \/ \E t \in BOOLEAN, c \in SeekPositions :
          aggpc = Outside /\ SrcEventSeekBegin(FALSE, t, c)
    \/ SrcEventSeekEnd

SpecSeg == Init /\ [][SegNext]_vars

\* the runs with failing allocations
AllocCaps == { <<100, 100, 10, 1, 1, 1>>, <<320, 240, 5, 1, 1, 1>> }

AllocNext ==
    \/ NothingSent /\ gst_videomixer_request_new_pad(NoPad, MaxPads, TRUE)
    \/ \E id \in PadIds, c \in AllocCaps : NothingSent /\ Announce(id, c)
    \/ \E id \in PadIds : Chain(id, MaxFrames)
    \/ \E id \in PadIds : SinkEventEos(id)
    \/ \E a \in BOOLEAN : gst_videomixer_collected(a)
    \/ CollectAgain

SpecAlloc == Init /\ [][AllocNext]_vars

\* the runs around the first negotiation: pads come and go, reach EOS and
\* are seeked before and after they announce a format
IdleCaps == { <<100, 100, 10, 1, 1, 1>> }

IdleNext ==
    \/ NothingSent /\ gst_videomixer_request_new_pad(NoPad, MaxPads, TRUE)
    \/ \E id \in PadIds : NothingSent /\ gst_videomixer_release_pad(id)
    \/ \E id \in PadIds, c \in IdleCaps : Announce(id, c)
    \/ \E id \in PadIds : Chain(id, MaxFrames)
    \/ \E id \in PadIds : SinkEventEos(id)
    \/ \E f \in BOOLEAN, c \in SeekPositions : SrcEventSeekBegin(f, TRUE, c)
    \/ SrcEventSeekEnd
    \/ gst_videomixer_collected(TRUE)

SpecIdle == Init /\ [][IdleNext]_vars

\* the runs of renegotiation while streaming: each of the two ports of the
\* example may announce a format at any time
RenegCaps ==
    { <<100, 100, 10, 1, 1, 1>>, <<320, 240, 5, 1, 1, 1>>,
      <<100, 100, 10, 1, 2, 1>> }

\* the report of the sink: <<proportion, diff, timestamp>>
RenegReports == { <<80, 20, 0>> }

RenegNext ==
    \/ NothingSent /\ gst_videomixer_request_new_pad(NoPad, ExamplePorts, TRUE)
    \/ \E id \in PadIds, c \in RenegCaps :
          gst_videomixer_pad_sink_setcaps(id, c[1], c[2], c[3], c[4], c[5], c[6])
    \/ \E id \in PadIds : Chain(id, MaxFrames)
    \/ \E id \in PadIds : SinkEventEos(id)
    \/ gst_videomixer_collected(TRUE)
    \/ \E r \in RenegReports : SrcEventQos(r[1], r[2], r[3])

SpecReneg == Init /\ [][RenegNext]_vars

GeomCaps ==
    { <<100, 100, 10, 1, 1, 1>>, <<320, 240, 5, 1, 1, 1>>,
      <<100, 240, 10, 2, 0, 0>>, <<320, 100, 0, 1, 2, 1>> }

\* the names pads are requested with: none, or "sink_0"
RequestNames == {NoPad, 0}

GeomNext ==
    \/ \E req \in RequestNames :
          gst_videomixer_request_new_pad(req, GeomMaxPads, TRUE)
    \/ \E id \in PadIds : gst_videomixer_release_pad(id)
    \/ \E id \in PadIds : gst_videomixer_release_unknown_pad(id)
    \/ \E id \in PadIds, c \in GeomCaps :
          gst_videomixer_pad_sink_setcaps(id, c[1], c[2], c[3], c[4], c[5], c[6])
    \/ \E id \in PadIds, z \in 0 .. MaxZorder : SetZorder(id, z)

SpecGeom == Init /\ [][GeomNext]_vars

\* ------------------------------------------------- claims on the registry
\* the last handler ran gst_videomixer_set_master_geometry
Negotiated == down.op \in {"setcaps", "release_pad"}

\* pad x is strictly slower than pad y, by cross-multiplication
Slower(x, y) == pad[x].fps_n * pad[y].fps_d < pad[y].fps_n * pad[x].fps_d

\* the pad has announced a rate (a fresh pad has 0/0)
Rated(x) == ~(pad[x].fps_n = 0 /\ pad[x].fps_d = 0)

MaxOf(S) == IF S = {} THEN 0 ELSE CHOOSE v \in S : \A w \in S : w <= v

\* C1 as stated: after a negotiation over a non-empty port set the master
\* has the slowest rate: no port is strictly slower than the master.
C1_MasterSlowest ==
    (Negotiated /\ sinkpads # <<>>) =>
        /\ mix.master \in Registered
        /\ \A x \in Registered : ~Slower(x, mix.master)

\* C1 amended: after a negotiation over a non-empty port set the master has
\* the fastest rate (no port is strictly faster), and among the ports that
\* announced a rate and tie at it the earliest in list order is the master;
\* when no port announced a rate, the last port of the list is the master.
C1_MasterFastest ==
    (Negotiated /\ sinkpads # <<>>) =>
        /\ mix.master \in Registered
        /\ \A x \in Registered : ~Slower(mix.master, x)
        /\ IF \E x \in Registered : Rated(x)
           THEN /\ Rated(mix.master)
                /\ \A i \in 1 .. (Index(sinkpads, mix.master) - 1) :
                      Rated(sinkpads[i]) => Slower(sinkpads[i], mix.master)
           ELSE mix.master = sinkpads[Len(sinkpads)]

\* a negotiation chose, among two rated ports with equal rates written
\* differently (10/2 and 5/1), the earlier one
C1_Witness ==
    /\ Negotiated /\ Len(sinkpads) = 2
    /\ mix.master = sinkpads[1]
    /\ pad[sinkpads[1]].fps_n = 10 /\ pad[sinkpads[1]].fps_d = 2
    /\ pad[sinkpads[2]].fps_n = 5 /\ pad[sinkpads[2]].fps_d = 1

\* C2: after a negotiation the output rate is exactly the rate of a port and
\* no port is faster than it (ports at 10/1 and 5/1 give 10/1), and the
\* output width and height are the largest native width and height.
C2_FastestRateBiggestGeometry ==
    (Negotiated /\ sinkpads # <<>>) =>
        /\ \E x \in Registered :
              mix.fps_n = pad[x].fps_n /\ mix.fps_d = pad[x].fps_d
        /\ \A x \in Registered :
              pad[x].fps_n * mix.fps_d <= mix.fps_n * pad[x].fps_d
        /\ ({<<pad[x].fps_n, pad[x].fps_d>> : x \in Registered}
               = {<<10, 1>>, <<5, 1>>}
             => mix.fps_n = 10 /\ mix.fps_d = 1)
        /\ \A x \in Registered :
              pad[x].in_width <= mix.in_width /\ pad[x].in_height <= mix.in_height
        /\ \E x \in Registered : pad[x].in_width = mix.in_width
        /\ \E x \in Registered : pad[x].in_height = mix.in_height

\* the documented example: 100x100 at 10/1 first, 320x240 at 5/1 second
C2_Witness ==
    /\ Negotiated /\ Len(sinkpads) = 2
    /\ pad[sinkpads[1]].fps_n = 10 /\ pad[sinkpads[1]].fps_d = 1
    /\ pad[sinkpads[1]].in_width = 100 /\ pad[sinkpads[1]].in_height = 100
    /\ pad[sinkpads[2]].fps_n = 5 /\ pad[sinkpads[2]].fps_d = 1
    /\ pad[sinkpads[2]].in_width = 320 /\ pad[sinkpads[2]].in_height = 240
    /\ mix.fps_n = 10 /\ mix.fps_d = 1
    /\ mix.in_width = 320 /\ mix.in_height = 240

\* C3: in every state reached by pad additions, pad removals, format
\* announcements (and z-order changes) the negotiated width and height are
\* the maximum native width and height over the registered pads.
C3_GeometryIsMax ==
    /\ mix.in_width = MaxOf({pad[x].in_width : x \in Registered})
    /\ mix.in_height = MaxOf({pad[x].in_height : x \in Registered})

\* a removal of the pad that held both maxima shrank the geometry
C3_Witness ==
    /\ down.op = "release_pad"
    /\ sinkpads # <<>>
    /\ down.shrunk
    /\ mix.in_width = 100 /\ mix.in_height = 100

\* ------------------------------------------- claims on the two-port runs
\* port x is port A of the example: 100x100 at 10/1, opacity 0.7, z-order 1
IsPortA(x) ==
    /\ pad[x].in_width = 100 /\ pad[x].in_height = 100
    /\ pad[x].fps_n = 10 /\ pad[x].fps_d = 1
    /\ pad[x].alpha = 70 /\ pad[x].zorder = 1

\* port x is port B: 320x240 at 5/1, opaque, z-order 0, placed at (0,0)
IsPortB(x) ==
    /\ pad[x].in_width = 320 /\ pad[x].in_height = 240
    /\ pad[x].fps_n = 5 /\ pad[x].fps_d = 1
    /\ pad[x].alpha = 100 /\ pad[x].zorder = 0
    /\ pad[x].xpos = 0 /\ pad[x].ypos = 0

TwoPorts(a, b) == Registered = {a, b} /\ a # b /\ IsPortA(a) /\ IsPortB(b)

\* the blend call made for port A / port B, unscaled
BlendsA(call, a) ==
    /\ call.id = a /\ ~call.scaled /\ call.alpha = 70
    /\ call.xpos = pad[a].xpos /\ call.ypos = pad[a].ypos
    /\ call.width = 100 /\ call.height = 100

BlendsB(call, b) ==
    /\ call.id = b /\ ~call.scaled /\ call.alpha = 100
    /\ call.xpos = 0 /\ call.ypos = 0
    /\ call.width = 320 /\ call.height = 240

Composited == down.op = "collected" /\ down.frame

\* C4 as stated: with exactly the ports A and B the negotiated output is
\* 320x240 at 5/1, and every composited frame fills the background, blends
\* B and then blends A with alpha 0.7 at A's offset.
C4_OutputAtSlowRate ==
    \A a \in Registered, b \in Registered :
        TwoPorts(a, b) =>
            /\ mix.in_width = 320 /\ mix.in_height = 240
            /\ mix.fps_n = 5 /\ mix.fps_d = 1
            /\ Composited =>
                  /\ down.bg /\ Len(down.blended) = 2
                  /\ BlendsB(down.blended[1], b)
                  /\ BlendsA(down.blended[2], a)

\* C4 amended: with exactly the ports A and B the negotiated output is
\* 320x240 at 10/1 (the rate of A, the faster port); every composited frame
\* fills the background and then blends the frames held, B's before A's, B
\* opaque at (0,0) and A with alpha 0.7 at A's offset; while neither port is
\* at EOS both are blended.
C4_OutputAtFastRate ==
    \A a \in Registered, b \in Registered :
        TwoPorts(a, b) =>
            /\ mix.in_width = 320 /\ mix.in_height = 240
            /\ mix.fps_n = 10 /\ mix.fps_d = 1
            /\ mix.master = a
            /\ Composited =>
                  /\ down.bg
                  /\ Len(down.blended) =
                        Cardinality(down.held \cap {a, b})
                  /\ b \in down.held => BlendsB(down.blended[1], b)
                  /\ a \in down.held =>
                        BlendsA(down.blended[Len(down.blended)], a)
                  /\ (~collect[a].eos /\ ~collect[b].eos) =>
                        down.held = {a, b}
                  /\ mix.out_width = 320 /\ mix.out_height = 240

\* a frame was composited from B and A, A requested first, moved above B by
\* its z-order and placed at offset 20
C4_Witness ==
    /\ TwoPorts(0, 1)
    /\ sinkpads = <<1, 0>>
    /\ Composited /\ Len(down.blended) = 2
    /\ pad[0].xpos = 20

\* ------------------------------------------ claims on the streaming runs
\* the cycle ran fill_queues
Filled == down.op = "collected" /\ down.ret # "NOT_NEGOTIATED"

C6_EosOnceAndTerminal ==
    /\ (down.op = "collected" /\ down.eos) =>
          (~down.alloc /\ ~down.bg /\ ~down.frame /\ down.blended = <<>>)
    /\ ~hist.late
    /\ hist.eos <= 1

\* ---------------------------------------------- claims on the pacing runs
PaceFast == {x \in Registered : pad[x].fps_n = 10 /\ pad[x].fps_d = 1}
PaceSlow == {x \in Registered : pad[x].fps_n = 5 /\ pad[x].fps_d = 1}

\* an output tick of a run with one 10 fps port and one 5 fps port
PaceTick ==
    /\ Composited
    /\ Len(sinkpads) = 2
    /\ PaceFast # {} /\ PaceSlow # {}

\* the number of the output tick just made
TickNo == mix.last_ts \div gst_util_uint64_scale_int(GST_SECOND, mix.fps_d, mix.fps_n)

\* C7 as stated: the 5 fps port is the master, the 10 fps port's frame is
\* consumed on exactly every other output tick, and its counter shows no
\* drift.
C7_FastPortEveryOtherTick ==
    PaceTick =>
        \A f \in PaceFast, s \in PaceSlow :
            /\ mix.master = s
            /\ (f \in down.popped <=> TickNo % 2 = 0)
            /\ pad[f].queued \in {0, 100}

\* C7 amended: the 10 fps port is the master and the output ticks at 10 fps;
\* the 10 fps port's frame is consumed on every tick, the 5 fps port's frame
\* on exactly every other tick (the even ones), and both counters show no
\* drift: after every tick the 10 fps port's counter is 0 and the 5 fps
\* port's counter is 100 ms after an odd tick and 0 after an even one, up to
\* the last tick of the run.
C7_SlowPortEveryOtherTick ==
    PaceTick =>
        \A f \in PaceFast, s \in PaceSlow :
            /\ mix.master = f
            /\ down.ts = (TickNo - 1) * 100
            /\ f \in down.popped
            /\ pad[f].queued = 0 /\ pad[f].buffer = NoBuffer
            /\ (s \in down.popped <=> TickNo % 2 = 0)
            /\ pad[s].queued = (IF TickNo % 2 = 0 THEN 0 ELSE 100)
            /\ (pad[s].buffer = NoBuffer <=> TickNo % 2 = 0)

\* the 1000th output tick
C7_Witness ==
    /\ PaceTick
    /\ TickNo = 1000
    /\ \A s \in PaceSlow : s \in down.popped /\ pad[s].queued = 0

\* ----------------------------------------------- claims on the flush runs
FlushOps == {"sink_flush_start", "sink_flush_stop", "seek_begin", "seek_end"}

\* C8 as stated: after a flush-start / flush-stop sequence every port's
\* queued-duration counter is zero and no port holds a frame, and the flush
\* emits no composited frame.
C8_FlushClearsEveryPort ==
    /\ down.op = "sink_flush_stop" =>
          \A x \in Registered : pad[x].queued = 0 /\ pad[x].buffer = NoBuffer
    /\ down.op \in FlushOps => (~down.frame /\ ~down.alloc)

\* C8 amended: FLUSH_STOP clears the port it arrives on: every port that
\* handled FLUSH_STOP since the last aggregation cycle has a zero counter and
\* holds no frame (so every port, once each has handled one, as after a
\* flushing seek that every upstream honours), while the other ports keep
\* their frame and counter; the flush and seek handlers neither allocate,
\* composite nor push a frame.
C8_FlushClearsItsPort ==
    /\ \A x \in hist.clean : pad[x].queued = 0 /\ pad[x].buffer = NoBuffer
    /\ down.op \in FlushOps =>
          (~down.frame /\ ~down.alloc /\ ~down.bg /\ down.blended = <<>>)
    /\ down.op = "sink_flush_stop" =>
          \A x \in Registered \ hist.clean :
              pad[x].buffer # NoBuffer => pad[x].queued # 0

\* mid-stream, a held frame was discarded by FLUSH_STOP and every port has
\* handled its FLUSH_STOP
C8_Witness ==
    /\ down.op = "sink_flush_stop"
    /\ down.held # {}
    /\ Len(sinkpads) = 2
    /\ hist.clean = Registered
    /\ mix.last_ts > 0

\* ------------------------------------------------- claims on the QoS runs
OutputInterval == (GST_SECOND * mix.fps_d) \div mix.fps_n

\* the cycle reached the QoS decision
Decided == down.op = "collected" /\ (down.frame \/ down.dropped)

C10_DropIffNotAfterEarliest ==
    Decided =>
        IF ~GST_CLOCK_TIME_IS_VALID(down.ts)
           \/ ~GST_CLOCK_TIME_IS_VALID(mix.earliest_time)
        THEN ~down.dropped
        ELSE down.dropped <=> down.qostime <= mix.earliest_time

\* a frame whose running time (mapped through a segment that starts at
\* 100 ms) equals the earliest acceptable time was dropped
C10_Witness ==
    /\ Decided /\ down.dropped
    /\ down.qostime = mix.earliest_time
    /\ down.qostime # down.ts

\* ------------------------------------------- claims on queue accounting
\* the interval a cycle subtracts, from what the cycle reported: the
\* master's counter after the fetch step, or one output interval when that
\* is not positive
CycleInterval ==
    IF down.queued[mix.master] > 0 THEN down.queued[mix.master]
    ELSE IF mix.fps_n = 0 THEN G_MAXINT64
         ELSE (GST_SECOND * mix.fps_d) \div mix.fps_n

\* queue accounting ran in the cycle: every port that held a frame had the
\* interval subtracted from its counter and, when the counter reached zero or
\* less, its frame released and popped; the other ports are untouched
Accounted ==
    \A x \in Registered :
        IF x \in down.held
        THEN /\ pad[x].queued = down.queued[x] - CycleInterval
             /\ x \in down.popped <=> pad[x].queued <= 0
             /\ x \in down.popped =>
                   (pad[x].buffer = NoBuffer /\ collect[x].buffer = NoBuffer)
             /\ x \notin down.popped => pad[x].buffer # NoBuffer
        ELSE /\ pad[x].queued = down.queued[x]
             /\ x \notin down.popped

\* C11: a cycle whose frame the QoS throttle drops allocates, composites and
\* pushes nothing and returns OK, and its queue accounting runs as in a
\* processed cycle: counters advanced, exhausted frames released and popped.
C11_DropStillAccounts ==
    /\ (down.op = "collected" /\ down.dropped) =>
          /\ ~down.alloc /\ ~down.bg /\ ~down.frame /\ down.blended = <<>>
          /\ ~down.eos
          /\ down.ret = "OK"
          /\ Accounted
    /\ Composited => Accounted

\* a dropped cycle released and popped the frame of its port
C11_Witness ==
    /\ down.op = "collected" /\ down.dropped
    /\ down.popped # {}
    /\ \A x \in down.popped : down.queued[x] > 0 /\ pad[x].queued = 0

C14_TimeFromMaster ==
    (Composited /\ down.mbuf # NoBuffer) =>
        LET seg == pad[mix.master].segment
        IN  /\ down.ts = IF down.mbuf.ts < seg.start THEN GST_CLOCK_TIME_NONE
                         ELSE down.mbuf.ts - seg.start + seg.accum
            /\ down.dur = down.mbuf.dur

C14_Witness ==
    /\ Composited /\ down.mbuf # NoBuffer
    /\ GST_CLOCK_TIME_IS_VALID(down.ts) /\ down.ts # down.mbuf.ts
    /\ GST_CLOCK_TIME_IS_VALID(down.dur)

\* a frame was produced while the master port held none
Stalled == Composited /\ down.mbuf = NoBuffer

\* C15 as stated: a frame produced while the master port holds no frame
\* carries the timestamp and the duration of the cycle before it.
C15_TimeHeldSteady ==
    (Stalled /\ down.prev # <<>>) =>
        /\ down.ts = down.prev[1]
        /\ down.dur = down.prev[2]

\* C15: a frame produced while the master port holds no frame carries the
\* duration of the cycle before it and that cycle's timestamp advanced by
\* that duration (the same timestamp when the duration is invalid); before
\* any cycle derived a time it carries timestamp 0 and no duration.
C15_TimeContinued ==
    Stalled =>
        IF down.prev = <<>>
        THEN down.ts = 0 /\ down.dur = GST_CLOCK_TIME_NONE
        ELSE /\ down.dur = down.prev[2]
             /\ down.ts = IF GST_CLOCK_TIME_IS_VALID(down.prev[2])
                          THEN (down.prev[1] + down.prev[2]) % ClockMod
                          ELSE down.prev[1]

C15_Witness ==
    /\ Stalled /\ down.prev # <<>>
    /\ GST_CLOCK_TIME_IS_VALID(down.dur) /\ down.ts > down.prev[1]

\* an aggregation cycle that came to the caps step
CapsStep == down.op = "collected" /\ down.ret # "NOT_NEGOTIATED" /\ ~down.eos

\* C16 as stated: a cycle sets the output caps only after the stored geometry
\* changed, sets none when it did not change, and every change of the
\* geometry has an announcement of its own.
C16_AnnouncedOncePerChange ==
    /\ down.op = "collected" => (down.caps => down.changes > 0)
    /\ CapsStep => (down.changes = 0 => ~down.caps)
    /\ (CapsStep /\ down.caps) => down.changes = 1

\* C16: a cycle that comes to the caps step sets the output caps exactly when
\* the stored geometry changed since they were last set, once for all the
\* changes since then; a cycle that ends before the caps step sets none, and
\* after an announcement nothing is left to announce.
C16_AnnouncedWhenChanged ==
    /\ CapsStep => (down.caps <=> down.changes > 0)
    /\ CapsStep => (hist.changes = 0 /\ ~mix.setcaps
                    /\ mix.out_width = mix.in_width
                    /\ mix.out_height = mix.in_height)
    /\ (down.op = "collected" /\ ~CapsStep) =>
           (~down.caps /\ hist.changes = down.changes)
    /\ mix.setcaps <=> hist.changes > 0

C16_Witness ==
    /\ CapsStep /\ down.caps /\ down.changes = 1
    /\ down.prev # <<>> /\ down.frame

\* C17: a geometry recomputation that changes the stored (master, width,
\* height, rate, par) tuple leaves the announce-caps flag and the
\* send-segment flag set and the QoS observation at (0.5, invalid); one that
\* finds the stored tuple again leaves the flags and the observation as
\* they were.
C17_ChangeSetsFlagsAndResetsQos ==
    down.op \in {"setcaps", "release_pad"} =>
        IF down.changed
        THEN GeomFlags(mix) = <<TRUE, TRUE, 50, GST_CLOCK_TIME_NONE>>
        ELSE GeomFlags(mix) = down.was

C17_Witness ==
    /\ down.op = "setcaps" /\ down.changed
    /\ down.was[1] = FALSE /\ down.was[2] = FALSE /\ down.was[3] = 80
    /\ GST_CLOCK_TIME_IS_VALID(down.was[4])

\* C18: a cycle that finds the input width zero returns not-negotiated and
\* does nothing else: nothing is fetched or pushed, and the mixer, the pads
\* and the collected data, the flush-stop-pending flag among them, stay as
\* they were.
C18_NotNegotiatedNoEffect ==
    [][ (mix.in_width = 0 /\ down'.op = "collected") =>
            /\ down' = [Quiet("collected") EXCEPT !.ret = "NOT_NEGOTIATED"]
            /\ mix' = mix /\ pad' = pad /\ collect' = collect
            /\ sinkpads' = sinkpads ]_vars

C18_Witness ==
    /\ down.op = "collected" /\ down.ret = "NOT_NEGOTIATED"
    /\ mix.in_width = 0 /\ mix.flush_stop_pending

\* a cycle that failed to allocate, and the cycle called after one
AllocFailed == down.op = "collected" /\ down.ret = "ERROR"
AfterFailure == down.op = "collected" /\ down.failed # <<>>

\* C19: a cycle whose allocation fails returns the error, pushes no frame,
\* leaves the state lock free and runs no queue accounting: every pad keeps
\* its buffer and its queued value; the cycle called after it, when its
\* allocation succeeds, blends the same pads into a frame and accounts for
\* them.
C19_AllocFailureAbortsCycle ==
    /\ AllocFailed =>
          /\ ~down.frame /\ ~down.alloc /\ ~down.bg /\ down.blended = <<>>
          /\ ~down.eos /\ down.popped = {}
          /\ ~mix.state_lock
          /\ \A x \in Registered :
                /\ pad[x].queued = down.queued[x]
                /\ x \in down.held <=> pad[x].buffer # NoBuffer
                /\ x \in down.held => collect[x].buffer = pad[x].buffer
    /\ (AfterFailure /\ ~AllocFailed) =>
          /\ down.frame /\ down.ret = "OK" /\ ~mix.state_lock
          /\ down.held = down.failed[1]
          /\ {down.blended[i].id : i \in 1 .. Len(down.blended)} = down.held
          /\ Accounted
          /\ down.mbuf # NoBuffer =>
                (down.ts = down.prev[1] /\ down.dur = down.prev[2])

C19_Witness ==
    /\ AfterFailure /\ down.frame /\ down.popped # {}
    /\ Cardinality(down.held) = 2

\* the blend calls of the last frame, each with the temporary buffer that
\* was allocated for it
BlendSteps == {i \in 1 .. Len(down.blended) : down.op = "collected" /\ down.frame}

\* C21 as stated: the size read when the pad's temporary buffer is allocated
\* and the size read when the pad is scaled and blended are one snapshot: a
\* scaled blend has a temporary buffer with room for its width and height,
\* and an unscaled one has none unless the pad's size is its native size.
C21_NoTearing ==
    \A i \in BlendSteps :
        LET call == down.blended[i]
            tbuf == down.tbufs[i]
        IN  IF call.scaled
            THEN tbuf = <<Max(pad[call.id].in_width, call.width),
                          Max(pad[call.id].in_height, call.height)>>
            ELSE tbuf = <<>> \/ tbuf = <<call.width, call.height>>

\* the steps of a cycle in which the aggregation thread reads the QoS pair
ReadSteps == {"read_proportion", "read_earliest_time"}

\* C22: the aggregation thread holds the lock of the QoS pair only while it
\* reads the pair, never while it fetches, composites or pushes, so a report
\* can be recorded in every other step of a cycle; the report thread holds
\* it only while it writes the pair; and the pair a cycle decided on was
\* written by one update.
C22_QosLockShortAndPairWhole ==
    /\ mix.object_lock = "collected" <=> aggpc.step \in ReadSteps
    /\ mix.object_lock = "event" <=> qospc # Outside
    /\ (aggpc # Outside /\ aggpc.step \notin ReadSteps /\ qospc = Outside)
           => ObjectLockFree(mix)
    /\ (down.op = "collected" /\ down.qos_read # <<>>)
           => down.qos_read \in hist.written

\* the aggregation thread stands before its read while a report is half
\* written: the proportion is the new one, the earliest time the old one
C22_Witness ==
    /\ aggpc # Outside /\ aggpc.step = "read_qos"
    /\ qospc # Outside /\ qospc.step = "earliest_time"
    /\ <<mix.proportion, mix.earliest_time>> \notin hist.written

C24_StopRestoresDefaults ==
    down.op = "stop" =>
        /\ mix.out_width = 0 /\ mix.out_height = 0
        /\ mix.fps_n = 0 /\ mix.fps_d = 0 /\ mix.par_n = 1 /\ mix.par_d = 1
        /\ mix.proportion = 50 /\ mix.earliest_time = GST_CLOCK_TIME_NONE
        /\ ~mix.setcaps /\ ~mix.sendseg /\ ~mix.flush_stop_pending
        /\ mix.segment_position = 0
        /\ \A x \in Registered : pad[x].buffer = NoBuffer /\ pad[x].queued = 0

\* --------------------------------------------- claims on released pads
\* the list without the pad x, the others in their order
Without(list, x) ==
    LET Keep(y) == y # x IN SelectSeq(list, Keep)

\* C25: releasing a registered pad unreferences the frame it holds, takes
\* it out of the pad list, decrements the pad count and recomputes the
\* geometry over the pads that remain, so that the master is one of them, or
\* none when the list is empty, and never the released pad; releasing a pad
\* that is not in the list changes nothing.
C25_ReleaseRemovesPad ==
    [][ /\ down'.op = "release_pad" =>
            \E id \in Registered :
               /\ sinkpads' = Without(sinkpads, id)
               /\ DOMAIN pad' = Registered \ {id}
               /\ DOMAIN collect' = Registered \ {id}
               /\ pad[id].buffer # NoBuffer => id \in down'.held
               /\ mix'.numpads = mix.numpads - 1
               /\ GeomOf(mix') = GeomWalk(GeomStart, sinkpads', pad', 1)
               /\ mix'.master # id
               /\ IF sinkpads' = <<>> THEN mix'.master = NoPad
                  ELSE InList(sinkpads', mix'.master)
        /\ down'.op = "release_unknown_pad" =>
               /\ sinkpads' = sinkpads /\ pad' = pad /\ collect' = collect
               /\ mix' = mix ]_vars

\* one of two streaming pads was released while it held a frame, and the
\* geometry changed to that of the pad that remains
C25_Witness ==
    /\ down.op = "release_pad" /\ down.held # {} /\ down.changed
    /\ Len(sinkpads) = 1
    /\ mix.master = sinkpads[1] /\ mix.last_ts > 0

LockedSteps == {"collected_enter", "blend_allocate", "blend_pad", "collected_unlock"}

C28_UnknownDurationStaysHeld ==
    (down.op = "collected" /\ (down.frame \/ down.dropped)) =>
        \A id \in Registered :
            (pad[id].fps_n = 0 /\ id \in down.held /\ down.queued[id] = NONE64)
                => pad[id].buffer # NoBuffer

\* the last step was a cycle that ran the queue accounting
AccountingRan == down.op = "collected" /\ (down.frame \/ down.dropped)

\* C29 as stated: the accounting after an emitted or dropped frame subtracts
\* the interval from the counter of every port, and pops the frame of
\* exactly the ports whose counter drops to zero or less.
C29_EveryCounterReduced ==
    AccountingRan =>
        \A x \in Registered :
            /\ pad[x].queued = down.queued[x] - CycleInterval
            /\ x \in down.popped <=> pad[x].queued <= 0

\* C29 amended: the accounting subtracts the interval (the master's counter
\* after the fetch, or when that is not positive one output interval, or
\* G_MAXINT64 at output rate 0) from the counter of every port that holds a
\* frame, and releases and pops the frame of exactly those of them whose
\* counter drops to zero or less; a port that holds no frame keeps its
\* counter.
C29_HeldCountersReduced ==
    AccountingRan =>
        /\ Accounted
        /\ down.popped =
               {x \in down.held : down.queued[x] - CycleInterval <= 0}
        /\ \A x \in Registered \ down.held : pad[x].queued = down.queued[x]

\* a frame was dropped by the QoS throttle while one port, at EOS, held no
\* frame, and the accounting popped the frame of the other
C29_Witness ==
    /\ AccountingRan /\ down.dropped
    /\ Registered \ down.held # {}
    /\ down.popped # {}

\* ------------------------------------------- claims on the z-order property
\* C30 as stated: after a z-order change the pad list is ascending by
\* z-order, and pads of equal z-order stand in the order they were added in
\* (in these runs the pads are added in the order of their serials).
C30_TiesByInsertionOrder ==
    down.op = "set_zorder" =>
        \A i \in 1 .. Len(sinkpads), j \in 1 .. Len(sinkpads) :
            i < j =>
                /\ pad[sinkpads[i]].zorder <= pad[sinkpads[j]].zorder
                /\ pad[sinkpads[i]].zorder = pad[sinkpads[j]].zorder
                       => sinkpads[i] < sinkpads[j]

\* C30 amended: a z-order change leaves the same pads in the list, ascending
\* by z-order, and pads of equal z-order stand in the order they had in the
\* list before the change.
C30_TiesByPreviousOrder ==
    [][ down'.op = "set_zorder" =>
          /\ Len(sinkpads') = Len(sinkpads)
          /\ \A x \in Registered : InList(sinkpads', x)
          /\ \A i \in 1 .. Len(sinkpads'), j \in 1 .. Len(sinkpads') :
                i < j =>
                    /\ pad'[sinkpads'[i]].zorder <= pad'[sinkpads'[j]].zorder
                    /\ pad'[sinkpads'[i]].zorder = pad'[sinkpads'[j]].zorder
                           => Index(sinkpads, sinkpads'[i])
                                  < Index(sinkpads, sinkpads'[j]) ]_vars

\* after some z-order changes a pad stands in front of a pad of the same
\* z-order that was added before it
C30_Witness ==
    /\ down.op = "set_zorder"
    /\ \E i \in 1 .. Len(sinkpads), j \in 1 .. Len(sinkpads) :
          /\ i < j
          /\ pad[sinkpads[i]].zorder = pad[sinkpads[j]].zorder
          /\ sinkpads[i] > sinkpads[j]

\* ------------------------------------ the runs that count held references
\* the format each upstream announces
FramesCaps(id) ==
    IF id = 0 THEN <<100, 100, 10, 1, 1, 1>> ELSE <<320, 240, 5, 1, 1, 1>>

FramesNext ==
    \/ NothingSent /\ gst_videomixer_request_new_pad(NoPad, ExamplePorts, TRUE)
    \/ \E id \in PadIds : NothingSent /\ Announce(id, FramesCaps(id))
    \/ \E id \in PadIds : Chain(id, MaxFrames)
    \/ gst_videomixer_collected(TRUE)
    \/ \E id \in PadIds : SinkEventFlushStart(id)
    \/ \E id \in PadIds : SinkEventFlushStop(id)
    \/ \E id \in PadIds : gst_videomixer_release_pad(id)
    \/ ChangeStatePausedToReady
    \/ ChangeStateReadyToPaused

SpecFrames == Init /\ [][FramesNext]_vars

\* the references the pads hold: one for each held buffer
HeldFrames ==
    {<<id, pad[id].buffer.n>> : id \in {x \in Registered : pad[x].buffer # NoBuffer}}

\* C31: a pad's held buffer is fetched only when the pad holds none, so no
\* operation replaces a held buffer by another one, and the references
\* taken by the fetches are exactly those on the buffers the pads hold: none
\* is dropped without its unref (no leak) and none is unreferenced twice,
\* over update_queues, FLUSH_STOP, release_pad and the stop
C31_FramesReleasedOnce ==
    /\ [](hist.refs = HeldFrames /\ ~hist.twice)
    /\ [][\A id \in Registered :
             (id \in DOMAIN pad' /\ pad[id].buffer # NoBuffer)
                => pad'[id].buffer \in {pad[id].buffer, NoBuffer}]_vars

\* a pad that held a buffer is released after update_queues has released
\* the buffer of the other pad
C31_Witness ==
    /\ down.op = "release_pad" /\ down.held # {}
    /\ \E id \in Registered : collect[id].sent > 0 /\ pad[id].buffer = NoBuffer

\* the stored tuple is what the walk of set_master_geometry gives for the
\* pads in the list now
GeometryCurrent == GeomOf(mix) = GeomWalk(GeomStart, sinkpads, pad, 1)

\* the output rate and pixel aspect ratio are those of the master pad
RateOfMaster ==
    mix.master \in Registered =>
        /\ mix.fps_n = pad[mix.master].fps_n /\ mix.fps_d = pad[mix.master].fps_d
        /\ mix.par_n = pad[mix.master].par_n /\ mix.par_d = pad[mix.master].par_d

\* C32 as stated: after every port addition, port removal and format
\* announcement the stored (master, width, height, rate, par) is the
\* negotiation function of the current port set, and the output rate and
\* pixel aspect ratio are always those of the master.
C32_GeometryAfterEveryOperation ==
    /\ down.op \in {"request_new_pad", "setcaps", "release_pad"} => GeometryCurrent
    /\ RateOfMaster

\* C32 amended: after every port removal and format announcement (a port
\* addition runs no recomputation) the stored tuple is the negotiation
\* function of the current port set, with a master in the set when the set
\* is not empty, and the output rate and pixel aspect ratio are those of
\* the master.
C32_GeometryAfterRemovalAndAnnouncement ==
    Negotiated =>
        /\ GeometryCurrent
        /\ sinkpads # <<>> => mix.master \in Registered
        /\ RateOfMaster

\* a format announcement after which the second of two ports is the master
\* and the output width is that of the other port
C32_Witness ==
    /\ down.op = "setcaps" /\ Len(sinkpads) = 2
    /\ mix.master = sinkpads[2]
    /\ mix.in_width = pad[sinkpads[1]].in_width
    /\ mix.in_width > pad[mix.master].in_width

\* ------------------------------- the runs without flush, seek and stop
\* a stream of 10, of 3 and of 1 frame per second
MonoCaps ==
    { <<100, 100, 10, 1, 1, 1>>, <<100, 100, 3, 1, 1, 1>>,
      <<100, 100, 1, 1, 1, 1>> }

MonoNext ==
    \/ NothingSent /\ gst_videomixer_request_new_pad(NoPad, ExamplePorts, TRUE)
    \/ \E id \in PadIds, c \in MonoCaps :
          InList(sinkpads, id) /\ ~collect[id].eos /\ Renegotiate(id, c)
    \/ \E id \in PadIds : Chain(id, MaxFrames)
    \/ \E id \in PadIds : SinkEventEos(id)
    \/ gst_videomixer_collected(TRUE)

SpecMono == Init /\ [][MonoNext]_vars

\* C33: with no flush, seek or stop and with non-decreasing timestamps on
\* every port, the timestamp of each emitted frame is greater than or equal
\* to that of the frame emitted before it, also when the master stalls and
\* when the master changes.
C33_TimestampsMonotone ==
    (down.op = "collected" /\ down.frame /\ down.prev # <<>>) =>
        down.ts >= down.prev[1]

\* ------------------------------------------------- the scaling method
\* gst_videomixer_set_property, PROP_METHOD
SetMethod(method) ==
    /\ mix' = [mix EXCEPT !.method = method]
    /\ down' = Quiet("set_method")
    /\ UNCHANGED <<sinkpads, pad, collect, pending, seekpc, aggpc, qospc, hist>>

\* the method with the 4-tap rule applied before the rule for width 1
EffectiveMethodFourTapFirst(method, in_width, in_height) ==
    IF method = GST_VIDEO_SCALE_4TAP /\ (in_width < 4 \/ in_height < 4)
    THEN GST_VIDEO_SCALE_BILINEAR
    ELSE IF in_width = 1 THEN GST_VIDEO_SCALE_NEAREST ELSE method

\* gst_video_scale_transform, the method it scales with: the local is
\* overwritten by the two tests in turn
EffectiveMethod(method, in_width, in_height) ==
    LET m1 == IF in_width = 1 THEN GST_VIDEO_SCALE_NEAREST ELSE method
    IN  IF m1 = GST_VIDEO_SCALE_4TAP /\ (in_width < 4 \/ in_height < 4)
        THEN GST_VIDEO_SCALE_BILINEAR
        ELSE m1

\* gst_video_scale_transform as gst_videomixer_blend_buffers calls it, for a
\* pad with a format whose requested size is not its native size
ScaleTransform(id) ==
    /\ InList(sinkpads, id)
    /\ pad[id].in_width # 0
    /\ ~(pad[id].width = 0 \/ pad[id].height = 0
          \/ (pad[id].in_width = pad[id].width /\ pad[id].in_height = pad[id].height))
    /\ down' = [Quiet("scale_transform") EXCEPT
                   !.scale = <<id, EffectiveMethod(mix.method, pad[id].in_width,
                                                   pad[id].in_height)>>]
    /\ UNCHANGED <<sinkpads, pad, mix, collect, pending, seekpc, aggpc, qospc, hist>>

\* the native sizes go up to this many pixels a side
ScaleMaxSide == 5

\* the function is called for one pad
ScalePorts == 1

ScaleNext ==
    \/ gst_videomixer_request_new_pad(NoPad, ScalePorts, TRUE)
    \/ \E id \in PadIds, w \in 1 .. ScaleMaxSide, h \in 1 .. ScaleMaxSide :
          gst_videomixer_pad_sink_setcaps(id, w, h, 10, 1, 1, 1)
    \/ \E id \in PadIds, v \in {0, 8} : SetPadProperty(id, "width", v)
    \/ \E id \in PadIds, v \in {0, 8} : SetPadProperty(id, "height", v)
    \/ \E method \in ScaleMethods : SetMethod(method)
    \/ \E id \in PadIds : ScaleTransform(id)

SpecScale == Init /\ [][ScaleNext]_vars

\* C34: the method a port is scaled with is nearest-neighbour when its
\* native width is 1, whatever is configured; otherwise bilinear when 4-tap
\* is configured and the native width or height is below 4; otherwise the
\* configured method.
C34_EffectiveMethod ==
    down.op = "scale_transform" =>
        LET p == pad[down.scale[1]]
        IN  down.scale[2] =
              IF p.in_width = 1 THEN GST_VIDEO_SCALE_NEAREST
              ELSE IF mix.method = GST_VIDEO_SCALE_4TAP
                      /\ (p.in_width < 4 \/ p.in_height < 4)
                   THEN GST_VIDEO_SCALE_BILINEAR
                   ELSE mix.method

\* a port of native width 1 is scaled while 4-tap is configured
C34_Witness ==
    /\ down.op = "scale_transform"
    /\ mix.method = GST_VIDEO_SCALE_4TAP
    /\ pad[down.scale[1]].in_width = 1
    /\ down.scale[2] = GST_VIDEO_SCALE_NEAREST

\* ------------------------------------------- the runs with the three locks
\* gst_videomixer_blend_buffers, gst_object_sync_values for the pad the walk
\* stands on, with a controller bound to the z-order of the pad that has the
\* value zorder for the stream time of the held buffer: the controller sets
\* the property, gst_videomixer_pad_set_property calls
\* GST_VIDEO_MIXER_STATE_LOCK, and g_mutex_lock waits while the mutex is held
BlendSyncValues(zorder) ==
    /\ aggpc.step = "blend"
    /\ pad[sinkpads[aggpc.walk]].buffer # NoBuffer
    /\ IF mix.state_lock
       THEN /\ aggpc' = [aggpc EXCEPT !.step = "zorder_lock"]
            /\ UNCHANGED <<sinkpads, pad>>
       ELSE /\ pad' = [pad EXCEPT ![sinkpads[aggpc.walk]].zorder = zorder]
            /\ sinkpads' = gst_videomixer_sort_pads(sinkpads, pad')
            /\ UNCHANGED aggpc
    /\ down' = Quiet("sync_values")
    /\ UNCHANGED <<mix, collect, pending, seekpc, qospc, hist>>

DeadCaps == { <<100, 100, 10, 1, 1, 1>> }

\* the report of the sink: <<proportion, diff, timestamp>>
DeadReports == { <<80, 20, 0>> }

DeadNext ==
    \/ NothingSent /\ aggpc = Outside
          /\ gst_videomixer_request_new_pad(NoPad, ExamplePorts, TRUE)
    \/ \E id \in PadIds, c \in DeadCaps : NothingSent /\ Announce(id, c)
    \/ \E id \in PadIds, z \in 0 .. MaxZorder : ~mix.state_lock /\ SetZorder(id, z)
    \/ \E id \in PadIds : Chain(id, MaxFrames)
    \/ \E r \in DeadReports : QosEventLock(r[1], r[2], r[3])
    \/ QosEventProportion
    \/ QosEventTime
    \/ CollectedEnter
    \/ BlendAllocate
    \/ \E z \in 0 .. MaxZorder : BlendSyncValues(z)
    \/ BlendPad
    \/ CollectedLeave

SpecDead == Init /\ [][DeadNext]_vars

\* the lock a thread waits for, and the thread that holds a lock: the state
\* lock is held over several steps by the aggregation thread only
WaitsFor(t) ==
    IF t = "collected" /\ aggpc.step = "zorder_lock" THEN "state"
    ELSE IF t = "collected" /\ aggpc.step = "read_qos" /\ ~ObjectLockFree(mix)
         THEN "object"
         ELSE "none"

Holder(lock) ==
    IF lock = "state" THEN (IF mix.state_lock THEN "collected" ELSE "free")
    ELSE IF lock = "object" THEN mix.object_lock
         ELSE "free"

LockThreads == {"collected", "event"}

\* C35: no deadlock among the state lock, the QoS (object) lock and the
\* collect lock, under any interleaving of the cycle, QoS reports, port
\* addition, format announcement and z-order changes: no thread waits for a
\* lock it holds itself, and no two threads wait for a lock the other holds.
C35_NoDeadlock ==
    /\ \A t \in LockThreads : Holder(WaitsFor(t)) # t
    /\ \A t, u \in LockThreads :
          ~(t # u /\ Holder(WaitsFor(t)) = u /\ Holder(WaitsFor(u)) = t)

\* ----------------------------------- the runs with seeks and flush events
\* the cycle runs by steps; the seek takes the lock of the GstCollectPads,
\* which is held while the cycle runs
LostCaps == { <<100, 100, 10, 1, 1, 1>>, <<320, 240, 5, 1, 1, 1>> }

LostPositions == {0, 100}

LostNext ==
    \/ NothingSent /\ ~mix.state_lock
          /\ gst_videomixer_request_new_pad(NoPad, ExamplePorts, TRUE)
    \/ \E id \in PadIds, c \in LostCaps : NothingSent /\ Announce(id, c)
    \/ \E id \in PadIds : Chain(id, MaxFrames)
    \/ CollectedEnter
    \/ BlendAllocate
    \/ BlendPad
    \/ CollectedUnlock
    \/ CollectedPush
    \/ \E f, t \in BOOLEAN, c \in LostPositions :
          aggpc = Outside /\ SrcEventSeekBegin(f, t, c)
    \/ SrcEventSeekEnd
    \/ \E id \in PadIds : aggpc = Outside /\ SinkEventFlushStart(id)
    \/ \E id \in PadIds : aggpc = Outside /\ SinkEventFlushStop(id)

SpecLost == Init /\ [][LostNext]_vars

\* C36: the new segment a seek asks for is never lost: from the seek's
\* write of segment_position and sendseg on, the flag stays set until a
\* cycle has pushed a segment whose position carries that seek's
\* segment_position.
C36_SeekSegmentNotLost ==
    hist.seek # <<>> => mix.sendseg

\* the segment of a seek to 100 ms was pushed by a cycle that ran after it:
\* the request is served and the flag is clear
C36_Witness ==
    /\ down.op = "collected" /\ down.frame /\ down.newseg
    /\ down.segment[2] = down.segment[1] + 100
    /\ mix.segment_position = 100
    /\ hist.seek = <<>> /\ ~mix.sendseg

\* ------------------------------------- the runs with controlled pad sizes
\* gst_videomixer_blend_buffers, gst_object_sync_values for the pad the walk
\* stands on, after its temporary buffer was allocated: a controller bound
\* to the width or the height of the pad sets the value it has for the
\* stream time of the held buffer
BlendSyncSize(prop, value) ==
    /\ aggpc.step = "blend"
    /\ pad[sinkpads[aggpc.walk]].buffer # NoBuffer
    /\ pad' = [pad EXCEPT ![sinkpads[aggpc.walk]][prop] = value]
    /\ down' = Quiet("sync_values")
    /\ UNCHANGED <<sinkpads, mix, collect, pending, seekpc, aggpc, qospc, hist>>

SyncCaps == { <<100, 100, 10, 1, 1, 1>> }
SyncSizes == {0, 50, 200}

SyncNext ==
    \/ NothingSent /\ aggpc = Outside
          /\ gst_videomixer_request_new_pad(NoPad, ExamplePorts, TRUE)
    \/ \E id \in PadIds, c \in SyncCaps : NothingSent /\ Announce(id, c)
    \/ \E id \in PadIds, prop \in {"width", "height"}, v \in SyncSizes :
          NothingSent /\ SetPadProperty(id, prop, v)
    \/ \E id \in PadIds : Chain(id, MaxFrames)
    \/ CollectedEnter
    \/ BlendAllocate
    \/ \E prop \in {"width", "height"}, v \in SyncSizes : BlendSyncSize(prop, v)
    \/ BlendPad
    \/ CollectedLeave

SpecSync == Init /\ [][SyncNext]_vars

\* C37: whenever the compositing pass scales a pad, the pad's temporary
\* buffer has been allocated and has the size for the width and height the
\* scaling call uses, also when the controller changed the width or the
\* height between the allocation and the call.
C37_ScaleBufferAllocated ==
    \A i \in BlendSteps :
        down.blended[i].scaled =>
            /\ down.tbufs[i] # <<>>
            /\ down.tbufs[i] =
                  <<Max(pad[down.blended[i].id].in_width, down.blended[i].width),
                    Max(pad[down.blended[i].id].in_height, down.blended[i].height)>>

\* ------------------------------------- the runs with reports of early frames
EarlyCaps == { <<100, 100, 10, 1, 1, 1>>, <<320, 240, 5, 1, 1, 1>> }

\* the reports of the sink: <<diff, timestamp>>, the frame was on time or
\* early, by less and by more than its timestamp
EarlyReports == { <<0, 0>>, <<0 - 20, 100>>, <<0 - 200, 100>> }

EarlyNext ==
    \/ NothingSent /\ gst_videomixer_request_new_pad(NoPad, QosMaxPads, TRUE)
    \/ \E id \in PadIds, c \in EarlyCaps : NothingSent /\ Announce(id, c)
    \/ \E id \in PadIds : Chain(id, QosMaxFrames)
    \/ gst_videomixer_collected(TRUE)
    \/ \E p \in {50, 80}, r \in EarlyReports : SrcEventQos(p, r[1], r[2])

SpecEarly == Init /\ [][EarlyNext]_vars

\* C38: after a report that the sink was early or on time (diff <= 0) for
\* a valid timestamp T, no frame with a running time later than T is
\* dropped, whatever T and diff are, also when -diff is more than T.
C38_EarlyReportNeverDropsLater ==
    (Decided /\ down.dropped /\ hist.report # <<>> /\ hist.report[1] <= 0) =>
        down.qostime <= hist.report[2]

\* ------------------------------------------ the runs with reports at any rate
\* gst_videomixer_update_qos reads mix->fps_d and mix->fps_n for the term
\* gst_util_uint64_scale_int (GST_SECOND, fps_d, fps_n) when the timestamp
\* is valid and diff > 0: <<fps_n, fps_d>> then, <<>> otherwise
QosRateUsed(m, diff, timestamp) ==
    IF timestamp # GST_CLOCK_TIME_NONE /\ diff > 0
    THEN <<m.fps_n, m.fps_d>>
    ELSE <<>>

\* gst_videomixer_src_event, QOS, once a cycle has sent something downstream.
\* With a denominator of 0 gst_util_uint64_scale_int fails its argument
\* check and returns G_MAXUINT64, or divides by zero when the checks are
\* compiled out: the observation is then any clock value
SrcEventQosAnyRate(proportion, diff, timestamp) ==
    /\ hist.prev # <<>>
    /\ IF QosRateUsed(mix, diff, timestamp) # <<>> /\ mix.fps_n = 0
       THEN \E e \in {GST_CLOCK_TIME_NONE,
                      (timestamp + 2 * diff + GST_CLOCK_TIME_NONE) % ClockMod} :
               mix' = [mix EXCEPT !.proportion = proportion, !.earliest_time = e]
       ELSE mix' = gst_videomixer_update_qos(mix, proportion, diff, timestamp)
    /\ down' = [Quiet("qos") EXCEPT !.rate = QosRateUsed(mix, diff, timestamp)]
    /\ hist' = [hist EXCEPT !.report = <<>>]
    /\ UNCHANGED <<sinkpads, pad, collect, pending, seekpc, aggpc, qospc>>

\* a stream of 10 frames per second and one of variable rate (0/1)
RateCaps == { <<100, 100, 10, 1, 1, 1>>, <<100, 100, 0, 1, 1, 1>> }

\* the reports of the sink: <<diff, timestamp>>
RateReports == { <<20, 0>>, <<0 - 20, 100>> }

RateNext ==
    \/ NothingSent /\ gst_videomixer_request_new_pad(NoPad, QosMaxPads, TRUE)
    \/ \E id \in PadIds, c \in RateCaps : NothingSent /\ Announce(id, c)
    \/ \E id \in PadIds : Chain(id, QosMaxFrames)
    \/ gst_videomixer_collected(TRUE)
    \/ \E r \in RateReports : SrcEventQosAnyRate(50, r[1], r[2])
    \/ ChangeStatePausedToReady
    \/ ChangeStateReadyToPaused

SpecRate == Init /\ [][RateNext]_vars

\* C39: the term GST_SECOND * fps_d / fps_n is only computed with a
\* numerator fps_n that is not 0: whenever a QoS report with positive diff
\* is processed, the output rate it divides by has fps_n # 0, also before
\* the first negotiation, after the stop and with a master of rate 0/1.
C39_RateNonzeroWhenDivided ==
    (down.op = "qos" /\ down.rate # <<>>) => down.rate[1] # 0

\* --------------------------------------------- the runs to end of stream
\* every upstream sends frames with durations and then EOS; GstCollectPads
\* calls the collected function whenever every pad has a buffer or is at EOS
LiveCaps == { <<100, 100, 10, 1, 1, 1>>, <<320, 240, 5, 1, 1, 1>> }

LiveNext ==
    \/ NothingSent /\ gst_videomixer_request_new_pad(NoPad, ExamplePorts, TRUE)
    \/ \E id \in PadIds, c \in LiveCaps :
          /\ NothingSent
          /\ InList(sinkpads, id) /\ ~collect[id].eos
          /\ Announce(id, c)
    \/ \E id \in PadIds : Chain(id, MaxFrames)
    \/ \E id \in PadIds : SinkEventEos(id)
    \/ gst_videomixer_collected(TRUE)

SpecLive == Init /\ [][LiveNext]_vars

\* the transport keeps calling the cycle while it is due, and every upstream
\* sends its EOS once it has nothing more to send
SpecLiveFair ==
    /\ SpecLive
    /\ WF_vars(gst_videomixer_collected(TRUE))
    /\ \A id \in PadIds : WF_vars(SinkEventEos(id))

\* every held buffer has been released and EOS has been pushed downstream
Drained == hist.eos > 0 /\ \A id \in Registered : pad[id].buffer = NoBuffer

\* a cycle that ran update_queues left the counter of every pad that held a
\* buffer below what it was after the fetch
CountersDecreased ==
    AccountingRan => \A id \in down.held : pad[id].queued < down.queued[id]

\* C40 as stated: when every port sends finitely many frames with valid
\* positive durations and then EOS, and the cycle keeps being called without
\* allocation failure, every fetched frame is eventually released and EOS is
\* eventually pushed downstream; and every cycle that runs the queue
\* accounting strictly decreases the counter of every port holding a frame.
C40_Progress ==
    /\ (sinkpads # <<>>) ~> Drained
    /\ []CountersDecreased

====
